---------------------------- MODULE Spec2Model ----------------------------
(***************************************************************************)
(* Statement Insights (Kym): the fetch-adls route, the page that maps its  *)
(* items to reconciliation rows, and the value normalizer and verdict of   *)
(* the row component.                                                      *)
(*                                                                         *)
(* JavaScript values are records [t, n, s]: t is the kind, n the value of  *)
(* a finite number in thousandths (1234.56 is 1234560), s the characters   *)
(* of a string.  NaN, +Infinity and -Infinity are kinds of their own, all  *)
(* of typeof 'number'.  Negative zero is not told apart from zero: the     *)
(* code compares with === and <, which do not tell them apart either.      *)
(***************************************************************************)
EXTENDS Integers, Sequences, FiniteSets, TLC

VARIABLES
    \* fetch-adls GET handler
    env,                 \* process.env: which settings are present
    network,             \* whether the page's fetch reaches the route
    listing,             \* what listPaths yields, in order
    serverPc,            \* position of the handler
    filePaths,           \* route.ts filePaths
    taskPc,              \* position of each filePromises[i]
    results,             \* value each filePromises[i] resolved with
    overtaken,           \* whether a read settled before the read of an earlier file
    response,            \* what the page's fetch observes
    \* Home (page)
    clientPc,
    loading,
    error,
    reconciliationData,
    clock,               \* Date.now(), as an offset
    \* value normalizer and mapper, called on their own
    rawValue, floatOut, intOut,
    rawAccount, mappedAccount, mirrorMapped,
    adlsData, mapOutcome, mapOutcomeAgain,
    \* the identities of the objects the normalizer is given and creates
    heap,
    \* ReconciliationRowComponent
    data, selectedAccountIndex, rendered,
    \* the routes of one case: fetch-bsi-analysis and the funding transfer count
    caseId,              \* searchParams.get('caseId')
    directories,         \* what listPaths of the MCA path yields
    casePc,              \* position of the handler
    readPath,            \* the path given to getFileClient
    fileContent,         \* what the read of that path settled with
    answer               \* the response of the handler

serverVars == <<env, network, listing, serverPc, filePaths, taskPc, results, overtaken>>
pageVars == <<clientPc, loading, error, reconciliationData, clock>>
normVars == <<rawValue, floatOut, intOut, rawAccount, mappedAccount, mirrorMapped,
              adlsData, mapOutcome, mapOutcomeAgain, heap>>
rowVars == <<data, selectedAccountIndex, rendered>>
caseVars == <<caseId, directories, casePc, readPath, fileContent, answer>>
vars == <<serverVars, response, pageVars, normVars, rowVars, caseVars>>

-----------------------------------------------------------------------------
(* Bounds *)

MaxStrLen == 3        \* generated strings have at most this many characters
MaxPaths == 3         \* path items in a listing, items in a response
MaxClock == 1         \* Date.now() advances by at most this much during a load
MaxMilli == 16        \* generated balances differ from the tie by up to this many thousandths

Scale == 10 * 10 * 10 \* thousandths per unit

-----------------------------------------------------------------------------
(* JavaScript values *)

Undefined == [t |-> "undefined", n |-> 0, s |-> <<>>]
Null == [t |-> "null", n |-> 0, s |-> <<>>]
NaN == [t |-> "nan", n |-> 0, s |-> <<>>]
PosInf == [t |-> "inf", n |-> 0, s |-> <<>>]
NegInf == [t |-> "ninf", n |-> 0, s |-> <<>>]
Num(m) == [t |-> "number", n |-> m, s |-> <<>>]
Str(cs) == [t |-> "string", n |-> 0, s |-> cs]
Bool(b) == [t |-> "boolean", n |-> IF b THEN 1 ELSE 0, s |-> <<>>]
Obj == [t |-> "object", n |-> 0, s |-> <<>>]

\* typeof value === 'number'
IsNumber(v) == v.t \in {"number", "nan", "inf", "ninf"}
\* Number.isFinite
IsFinite(v) == v.t = "number"
\* Number.isInteger
IsInteger(v) == v.t = "number" /\ v.n % Scale = 0
\* isNaN of a number
isNaN(v) == v.t = "nan"

\* ToBoolean: what `!v` and `v || d` test
Truthy(v) ==
    CASE v.t \in {"undefined", "null", "nan"} -> FALSE
      [] v.t = "number" -> v.n # 0
      [] v.t = "string" -> v.s # <<>>
      [] v.t = "boolean" -> v.n = 1
      [] OTHER -> TRUE

Whitespace == {" "}
Digits == {"0", "1", "2", "3", "4", "5", "6", "7", "8", "9"}

DigitVal(c) ==
    CASE c = "0" -> 0 [] c = "1" -> 1 [] c = "2" -> 2 [] c = "3" -> 3
      [] c = "4" -> 4 [] c = "5" -> 5 [] c = "6" -> 6 [] c = "7" -> 7
      [] c = "8" -> 8 [] c = "9" -> 9

InfinityChars == <<"I", "n", "f", "i", "n", "i", "t", "y">>

DigitChar(d) ==
    CASE d = 0 -> "0" [] d = 1 -> "1" [] d = 2 -> "2" [] d = 3 -> "3"
      [] d = 4 -> "4" [] d = 5 -> "5" [] d = 6 -> "6" [] d = 7 -> "7"
      [] d = 8 -> "8" [] d = 9 -> "9"

\* the decimal digits of a natural number
RECURSIVE NatToChars(_)
NatToChars(k) ==
    IF k < 10 THEN <<DigitChar(k)>> ELSE NatToChars(k \div 10) \o <<DigitChar(k % 10)>>

\* the digits after the decimal point of m thousandths, trailing zeros dropped
FractionChars(m) ==
    IF m % 10 # 0 THEN <<DigitChar(m \div 100), DigitChar((m \div 10) % 10), DigitChar(m % 10)>>
    ELSE IF m % 100 # 0 THEN <<DigitChar(m \div 100), DigitChar((m \div 10) % 10)>>
    ELSE <<DigitChar(m \div 100)>>

\* Number.prototype.toString of a finite number (none is large enough for
\* exponent notation)
NumToChars(m) ==
    LET a == IF m < 0 THEN -m ELSE m
        whole == NatToChars(a \div Scale)
        frac == IF a % Scale = 0 THEN <<>> ELSE <<".">> \o FractionChars(a % Scale)
    IN  (IF m < 0 THEN <<"-">> ELSE <<>>) \o whole \o frac

\* String(value), and the conversion a template literal applies
StringOf(v) ==
    CASE v.t = "string" -> v.s
      [] v.t = "number" -> NumToChars(v.n)
      [] v.t = "nan" -> <<"N", "a", "N">>
      [] v.t = "inf" -> InfinityChars
      [] v.t = "ninf" -> <<"-">> \o InfinityChars
      [] v.t = "undefined" -> <<"u", "n", "d", "e", "f", "i", "n", "e", "d">>
      [] v.t = "null" -> <<"n", "u", "l", "l">>
      [] v.t = "boolean" ->
           IF v.n = 1 THEN <<"t", "r", "u", "e">> ELSE <<"f", "a", "l", "s", "e">>
      [] OTHER ->
           <<"[", "o", "b", "j", "e", "c", "t", " ", "O", "b", "j", "e", "c", "t", "]">>

RECURSIVE TrimStart(_)
TrimStart(cs) ==
    IF cs # <<>> /\ Head(cs) \in Whitespace THEN TrimStart(Tail(cs)) ELSE cs

RECURSIVE TrimEnd(_)
TrimEnd(cs) ==
    IF cs # <<>> /\ cs[Len(cs)] \in Whitespace
    THEN TrimEnd(SubSeq(cs, 1, Len(cs) - 1))
    ELSE cs

\* String.prototype.trim
Trim(cs) == TrimEnd(TrimStart(cs))

\* str.replace(/,/g, '')
StripCommas(cs) == SelectSeq(cs, LAMBDA c : c # ",")

StartsWith(cs, prefix) ==
    Len(cs) >= Len(prefix) /\ SubSeq(cs, 1, Len(prefix)) = prefix

\* the longest prefix of decimal digits
RECURSIVE DigitPrefix(_)
DigitPrefix(cs) ==
    IF cs # <<>> /\ Head(cs) \in Digits
    THEN <<Head(cs)>> \o DigitPrefix(Tail(cs))
    ELSE <<>>

RECURSIVE Pow10(_)
Pow10(k) == IF k = 0 THEN 1 ELSE 10 * Pow10(k - 1)

\* the whole number written by a digit string
RECURSIVE DigitsValue(_)
DigitsValue(ds) ==
    IF ds = <<>> THEN 0
    ELSE 10 * DigitsValue(SubSeq(ds, 1, Len(ds) - 1)) + DigitVal(ds[Len(ds)])

\* the fraction written by the digits after a decimal point, in thousandths
\* (digits past the third are below the resolution of n; no generated string
\* has them)
RECURSIVE FractionValue(_, _)
FractionValue(ds, place) ==
    IF ds = <<>> \/ place > 3 THEN 0
    ELSE DigitVal(Head(ds)) * (Scale \div Pow10(place)) + FractionValue(Tail(ds), place + 1)

\* parseFloat(str): leading white space skipped, an optional sign, then
\* "Infinity" or the longest decimal literal; NaN when there is none.
\* (Exponent notation is not generated: no input string holds "e".)
parseFloat(cs) ==
    LET t == TrimStart(cs)
        signed == t # <<>> /\ Head(t) \in {"+", "-"}
        neg == t # <<>> /\ Head(t) = "-"
        u == IF signed THEN Tail(t) ELSE t
        ip == DigitPrefix(u)
        rest == SubSeq(u, Len(ip) + 1, Len(u))
        fp == IF rest # <<>> /\ Head(rest) = "." THEN DigitPrefix(Tail(rest)) ELSE <<>>
        mag == DigitsValue(ip) * Scale + FractionValue(fp, 1)
    IN  IF StartsWith(u, InfinityChars) THEN (IF neg THEN NegInf ELSE PosInf)
        ELSE IF ip = <<>> /\ fp = <<>> THEN NaN
        ELSE Num(IF neg THEN -mag ELSE mag)

\* parseInt(str, 10): leading white space skipped, an optional sign, then the
\* longest run of decimal digits; NaN when there is none.
parseInt(cs) ==
    LET t == TrimStart(cs)
        signed == t # <<>> /\ Head(t) \in {"+", "-"}
        neg == t # <<>> /\ Head(t) = "-"
        u == IF signed THEN Tail(t) ELSE t
        ip == DigitPrefix(u)
        mag == DigitsValue(ip) * Scale
    IN  IF ip = <<>> THEN NaN ELSE Num(IF neg THEN -mag ELSE mag)

\* Math.floor
MathFloor(v) == IF v.t = "number" THEN Num((v.n \div Scale) * Scale) ELSE v

\* Math.abs
MathAbs(v) ==
    CASE v.t = "number" -> Num(IF v.n < 0 THEN -v.n ELSE v.n)
      [] v.t = "ninf" -> PosInf
      [] OTHER -> v

\* Math.round: the nearest integer, a tie going to the larger one
MathRound(v) == IF v.t = "number" THEN Num(((v.n + Scale \div 2) \div Scale) * Scale) ELSE v

\* unary minus
JsNeg(v) ==
    CASE v.t = "number" -> Num(-v.n)
      [] v.t = "inf" -> NegInf
      [] v.t = "ninf" -> PosInf
      [] OTHER -> v

\* a + b of two numbers
JsAdd(a, b) ==
    CASE a.t = "nan" \/ b.t = "nan" -> NaN
      [] a.t = "number" /\ b.t = "number" -> Num(a.n + b.n)
      [] a.t = "number" -> b
      [] b.t = "number" -> a
      [] a.t = b.t -> a
      [] OTHER -> NaN

\* a - b of two numbers
JsSub(a, b) == JsAdd(a, JsNeg(b))

\* a * k and a / k for a positive whole number k (a / k is taken only of a
\* multiple of k)
JsTimes(a, k) == IF a.t = "number" THEN Num(a.n * k) ELSE a
JsOver(a, k) == IF a.t = "number" THEN Num(a.n \div k) ELSE a

\* a < b for a finite bound b given in thousandths
JsLessThan(a, bound) ==
    CASE a.t = "number" -> a.n < bound
      [] a.t = "ninf" -> TRUE
      [] OTHER -> FALSE

-----------------------------------------------------------------------------
(* Value normalizer *)

safeParseFloat(value) ==
    IF value.t \in {"null", "undefined"} THEN Num(0)
    ELSE IF IsNumber(value) THEN (IF isNaN(value) THEN Num(0) ELSE value)
    ELSE LET str == StripCommas(Trim(StringOf(value)))
             parsed == parseFloat(str)
         IN  IF isNaN(parsed) THEN Num(0) ELSE parsed

safeParseInt(value) ==
    IF value.t \in {"null", "undefined"} THEN Num(0)
    ELSE IF IsNumber(value) THEN (IF isNaN(value) THEN Num(0) ELSE MathFloor(value))
    ELSE LET str == StripCommas(Trim(StringOf(value)))
             parsed == parseInt(str)
         IN  IF isNaN(parsed) THEN Num(0) ELSE parsed

-----------------------------------------------------------------------------
(* Account mapping *)

NumericFields ==
    {"starting_balance", "ending_balance", "total_credits", "total_debits",
     "average_balance", "no_of_deposits", "no_of_withdrawals", "mca_withdrawals",
     "returned_items_count", "returned_items_days", "overdraft_days"}

IntegerFields ==
    {"no_of_deposits", "no_of_withdrawals", "returned_items_count",
     "returned_items_days", "overdraft_days"}

\* the raw field each mapped field is read from
RawFieldOf(f) ==
    CASE f = "starting_balance" -> "beginning_balance"
      [] f = "total_credits" -> "total_deposits"
      [] f = "total_debits" -> "total_withdrawals"
      [] f = "average_balance" -> "avg_daily_balance"
      [] OTHER -> f

\* v || d
OrElse(v, d) == IF Truthy(v) THEN v ELSE d

\* reading a property of null or undefined raises a TypeError
mapAccountDataThrows(account) == account.entry # "object"

\* the mapping without Math.abs
mapAccountData_NoAbs(account) ==
    [account_number |-> OrElse(account.account_number, Str(<<>>)),
     account_type |-> OrElse(account.account_type, Str(<<>>)),
     starting_balance |-> safeParseFloat(account.beginning_balance),
     ending_balance |-> safeParseFloat(account.ending_balance),
     total_credits |-> safeParseFloat(account.total_deposits),
     total_debits |-> safeParseFloat(account.total_withdrawals),
     average_balance |-> safeParseFloat(account.avg_daily_balance),
     no_of_deposits |-> safeParseInt(account.no_of_deposits),
     no_of_withdrawals |-> safeParseInt(account.no_of_withdrawals),
     mca_withdrawals |-> safeParseFloat(account.mca_withdrawals),
     returned_items_count |-> safeParseInt(account.returned_items_count),
     returned_items_days |-> safeParseInt(account.returned_items_days),
     overdraft_days |-> safeParseInt(account.overdraft_days)]

mapAccountData(account) ==
    [account_number |-> OrElse(account.account_number, Str(<<>>)),
     account_type |-> OrElse(account.account_type, Str(<<>>)),
     starting_balance |-> safeParseFloat(account.beginning_balance),
     ending_balance |-> safeParseFloat(account.ending_balance),
     total_credits |-> safeParseFloat(account.total_deposits),
     total_debits |-> MathAbs(safeParseFloat(account.total_withdrawals)),
     average_balance |-> safeParseFloat(account.avg_daily_balance),
     no_of_deposits |-> safeParseInt(account.no_of_deposits),
     no_of_withdrawals |-> safeParseInt(account.no_of_withdrawals),
     mca_withdrawals |-> safeParseFloat(account.mca_withdrawals),
     returned_items_count |-> safeParseInt(account.returned_items_count),
     returned_items_days |-> safeParseInt(account.returned_items_days),
     overdraft_days |-> safeParseInt(account.overdraft_days)]

-----------------------------------------------------------------------------
(* Reconciliation mapper *)

MonthAbbreviations ==
    <<<<"J", "A", "N">>, <<"F", "E", "B">>, <<"M", "A", "R">>, <<"A", "P", "R">>,
      <<"M", "A", "Y">>, <<"J", "U", "N">>, <<"J", "U", "L">>, <<"A", "U", "G">>,
      <<"S", "E", "P">>, <<"O", "C", "T">>, <<"N", "O", "V">>, <<"D", "E", "C">>>>

\* monthMap[monthStr] || monthStr
getMonthAbbreviation(month) ==
    LET monthStr == StringOf(month)
    IN  IF \E k \in 1..12 : NatToChars(k) = monthStr
        THEN MonthAbbreviations[CHOOSE k \in 1..12 : NatToChars(k) = monthStr]
        ELSE monthStr

IsLeapYear(y) == y % 4 = 0 /\ (y % 100 # 0 \/ y % 400 = 0)

DaysInMonth(m, y) ==
    IF m = 2 THEN (IF IsLeapYear(y) THEN 29 ELSE 28)
    ELSE IF m \in {4, 6, 9, 11} THEN 30
    ELSE 31

\* new Date(year, month, 0).getDate(): day 0 of month index `month` is the
\* last day of the month before it; a year 0..99 means 1900 + year; month
\* indices outside 0..11 carry into the year; an unrepresentable date gives NaN.
LastDayOfMonth(year, month) ==
    IF ~(IsFinite(year) /\ IsFinite(month)) THEN NaN
    ELSE LET y == year.n \div Scale
             m == month.n \div Scale
             full == IF y \in 0..99 THEN 1900 + y ELSE y
             ym == full + (m \div 12)
             mn == m % 12
         IN  IF ym > 275760 \/ ym < -271821 THEN NaN
             ELSE IF mn = 0 THEN Num(31 * Scale)
             ELSE Num(DaysInMonth(mn, ym) * Scale)

UpperCase == <<"A", "B", "C", "D", "E", "F", "G", "H", "I", "J", "K", "L", "M",
               "N", "O", "P", "Q", "R", "S", "T", "U", "V", "W", "X", "Y", "Z">>
LowerCase == <<"a", "b", "c", "d", "e", "f", "g", "h", "i", "j", "k", "l", "m",
               "n", "o", "p", "q", "r", "s", "t", "u", "v", "w", "x", "y", "z">>

ToLower(c) ==
    IF \E i \in 1..26 : UpperCase[i] = c
    THEN LowerCase[CHOOSE i \in 1..26 : UpperCase[i] = c]
    ELSE c

ParsingResultSuffix ==
    <<"_", "p", "a", "r", "s", "i", "n", "g", "_", "r", "e", "s", "u", "l", "t",
      ".", "j", "s", "o", "n">>

\* the replace without its i flag: the suffix in lower case only
StripParsingResultSuffix_CaseSensitive(cs) ==
    LET k == Len(ParsingResultSuffix)
        n == Len(cs)
    IN  IF n >= k /\ SubSeq(cs, n - k + 1, n) = ParsingResultSuffix
        THEN SubSeq(cs, 1, n - k)
        ELSE cs

\* filename.replace(/_parsing_result\.json$/i, '')
StripParsingResultSuffix(cs) ==
    LET k == Len(ParsingResultSuffix)
        n == Len(cs)
    IN  IF n >= k /\ [i \in 1..k |-> ToLower(cs[n - k + i])] = ParsingResultSuffix
        THEN SubSeq(cs, 1, n - k)
        ELSE cs

\* str.replace(" ", "_"): the first space only
RECURSIVE ReplaceFirstSpace(_)
ReplaceFirstSpace(cs) ==
    IF cs = <<>> THEN <<>>
    ELSE IF Head(cs) = " " THEN <<"_">> \o Tail(cs)
    ELSE <<Head(cs)>> \o ReplaceFirstSpace(Tail(cs))

\* a property of parsed_json; every property of a primitive is undefined
PjField(pj, f) == IF pj.kind = "object" THEN pj[f] ELSE Undefined

NoAccounts == [kind |-> "absent", items |-> <<>>]
PjAccounts(pj) == IF pj.kind = "object" THEN pj.accounts ELSE NoAccounts

\* !adlsData || !adlsData.parsed_json
MissingParsedJson(item) ==
    item.kind # "object" \/ item.parsed_json.kind \in {"absent", "null", "falsy"}

\* the calls of mapADLSToReconciliationRow that raise: the explicit Error, and
\* the TypeErrors of .map on a value that is no array, of a property read on a
\* null account entry, and of .replace on a filename that is no string
mapADLSToReconciliationRowThrows(item) ==
    \/ MissingParsedJson(item)
    \/ PjAccounts(item.parsed_json).kind = "nonarray"
    \/ /\ PjAccounts(item.parsed_json).kind = "array"
       /\ \E i \in DOMAIN item.parsed_json.accounts.items :
              mapAccountDataThrows(item.parsed_json.accounts.items[i])
    \/ Truthy(item.filename) /\ item.filename.t # "string"

\* the row that takes the first account of the statement only
mapADLSToReconciliationRow_FirstAccountOnly(item, now) ==
    LET parsed_json == item.parsed_json
        statement_month == PjField(parsed_json, "statement_month")
        statement_year == PjField(parsed_json, "statement_year")
        monthYear == getMonthAbbreviation(OrElse(statement_month, Num(1 * Scale)))
                         \o <<" ">> \o StringOf(OrElse(statement_year, Num(2025 * Scale)))
        month == OrElse(safeParseInt(statement_month), Num(1 * Scale))
        year == OrElse(safeParseInt(statement_year), Num(2025 * Scale))
        lastDay == LastDayOfMonth(year, month)
        accounts == PjAccounts(parsed_json)
        list == IF accounts.kind = "array" THEN accounts.items ELSE <<>>
    IN  [case_id |-> OrElse(item.batch_id, Str(<<"C", "A", "S", "E", "-">> \o NatToChars(now))),
         document_name |-> Str(<<"S", "t", "a", "t", "e", "m", "e", "n", "t", "_">>
                               \o ReplaceFirstSpace(monthYear) \o <<".", "p", "d", "f">>),
         iso_email |-> Str(<<>>),
         bank_name |-> OrElse(PjField(parsed_json, "bank_name"), Str(<<>>)),
         month_year |-> Str(monthYear),
         first_transaction_date |->
             Str(StringOf(month) \o <<"/", "1", "/">> \o StringOf(year)),
         last_transaction_date |->
             Str(StringOf(month) \o <<"/">> \o StringOf(lastDay) \o <<"/">> \o StringOf(year)),
         accounts |-> IF list = <<>> THEN <<>> ELSE <<mapAccountData(list[1])>>,
         filename |-> Str(IF Truthy(item.filename)
                          THEN StripParsingResultSuffix(item.filename.s)
                          ELSE <<>>)]

mapADLSToReconciliationRow(item, now) ==
    LET parsed_json == item.parsed_json
        statement_month == PjField(parsed_json, "statement_month")
        statement_year == PjField(parsed_json, "statement_year")
        monthYear == getMonthAbbreviation(OrElse(statement_month, Num(1 * Scale)))
                         \o <<" ">> \o StringOf(OrElse(statement_year, Num(2025 * Scale)))
        month == OrElse(safeParseInt(statement_month), Num(1 * Scale))
        year == OrElse(safeParseInt(statement_year), Num(2025 * Scale))
        lastDay == LastDayOfMonth(year, month)
        accounts == PjAccounts(parsed_json)
        list == IF accounts.kind = "array" THEN accounts.items ELSE <<>>
    IN  [case_id |-> OrElse(item.batch_id, Str(<<"C", "A", "S", "E", "-">> \o NatToChars(now))),
         document_name |-> Str(<<"S", "t", "a", "t", "e", "m", "e", "n", "t", "_">>
                               \o ReplaceFirstSpace(monthYear) \o <<".", "p", "d", "f">>),
         iso_email |-> Str(<<>>),
         bank_name |-> OrElse(PjField(parsed_json, "bank_name"), Str(<<>>)),
         month_year |-> Str(monthYear),
         first_transaction_date |->
             Str(StringOf(month) \o <<"/", "1", "/">> \o StringOf(year)),
         last_transaction_date |->
             Str(StringOf(month) \o <<"/">> \o StringOf(lastDay) \o <<"/">> \o StringOf(year)),
         accounts |-> [i \in DOMAIN list |-> mapAccountData(list[i])],
         filename |-> Str(IF Truthy(item.filename)
                          THEN StripParsingResultSuffix(item.filename.s)
                          ELSE <<>>)]

-----------------------------------------------------------------------------
(* Reconciliation verdict (ReconciliationRowComponent) *)

HalfCent == 5         \* 0.005, in thousandths

\* the difference with its operands exchanged: calcBalance - ending_balance
calculateDifference_Exchanged(account) ==
    LET calcBalance == JsAdd(JsSub(account.starting_balance, account.total_debits),
                             account.total_credits)
        difference == JsSub(calcBalance, account.ending_balance)
        rounded == JsOver(MathRound(JsTimes(difference, 100)), 100)
    IN  IF JsLessThan(MathAbs(rounded), HalfCent) THEN Num(0) ELSE rounded

\* the difference rounded down (Math.floor) instead of to the nearest cent
calculateDifference_Floor(account) ==
    LET calcBalance == JsAdd(JsSub(account.starting_balance, account.total_debits),
                             account.total_credits)
        difference == JsSub(account.ending_balance, calcBalance)
        rounded == JsOver(MathFloor(JsTimes(difference, 100)), 100)
    IN  IF JsLessThan(MathAbs(rounded), HalfCent) THEN Num(0) ELSE rounded

calculateDifference(account) ==
    LET calcBalance == JsAdd(JsSub(account.starting_balance, account.total_debits),
                             account.total_credits)
        difference == JsSub(account.ending_balance, calcBalance)
        rounded == JsOver(MathRound(JsTimes(difference, 100)), 100)
    IN  IF JsLessThan(MathAbs(rounded), HalfCent) THEN Num(0) ELSE rounded

\* data.accounts[selectedAccountIndex] || data.accounts[0]; indices count from 0
SelectedAccount(row, index) ==
    IF index + 1 \in DOMAIN row.accounts THEN <<row.accounts[index + 1]>>
    ELSE IF row.accounts # <<>> THEN <<row.accounts[1]>>
    ELSE <<>>

\* const difference = selectedAccount ? calculateDifference(selectedAccount) : 0
Difference(row, index) ==
    LET sel == SelectedAccount(row, index)
    IN  IF sel # <<>> THEN calculateDifference(sel[1]) ELSE Num(0)

\* difference === 0
isHarmonized(row, index) == Difference(row, index) = Num(0)
-----------------------------------------------------------------------------
(* Inputs *)

SeqsUpTo(S, n) == UNION {[1..k -> S] : k \in 0..n}

Alphabet == {"1", "5", ",", ".", "-", " "}

NamedStrings ==
    {<<"N", "A">>,
     <<"1", ",", "2", "3", "4", ".", "5", "0">>,
     <<"1", ",", "2", "3", "4", ".", "5", "6">>,
     <<"1", "5", "2", "3", "3", "0", ".", "5", "2">>,
     <<"-", "1", "5", "2", "3", "3", "0", ".", "5", "2">>,
     <<"-", "1", ".", "5">>,
     InfinityChars,
     <<"-">> \o InfinityChars}

NumberSamples ==
    {0, 1, -1, 500, -500, 1500, -1500, 3000, -3000, 1234560, -1234560,
     152330520, -152330520}

JsValues ==
    {Undefined, Null, NaN, PosInf, NegInf, Bool(TRUE), Bool(FALSE), Obj}
    \cup {Num(m) : m \in NumberSamples}
    \cup {Str(cs) : cs \in SeqsUpTo(Alphabet, MaxStrLen) \cup NamedStrings}

\* an account object whose thirteen properties are given
Account(number, type, begin, ending, deposits, withdrawals, avg, nDep, nWd, mca, retCount, retDays, odDays) ==
    [entry |-> "object",
     account_number |-> number, account_type |-> type,
     beginning_balance |-> begin, ending_balance |-> ending,
     total_deposits |-> deposits, total_withdrawals |-> withdrawals,
     avg_daily_balance |-> avg,
     no_of_deposits |-> nDep, no_of_withdrawals |-> nWd,
     mca_withdrawals |-> mca, returned_items_count |-> retCount,
     returned_items_days |-> retDays, overdraft_days |-> odDays]

\* {}: every property absent
EmptyAccount ==
    Account(Undefined, Undefined, Undefined, Undefined, Undefined, Undefined,
            Undefined, Undefined, Undefined, Undefined, Undefined, Undefined, Undefined)

\* a null entry of the accounts array
NullEntry == [EmptyAccount EXCEPT !.entry = "null"]

\* an account every numeric property of which holds v
UniformAccount(v) ==
    Account(Str(<<"1">>), Undefined, v, v, v, v, v, v, v, v, v, v, v)

\* a documented account: the four balances as numbers, the average "NA", the
\* optional properties absent
PlainAccount(begin, withdrawals, deposits, ending) ==
    Account(Str(<<"1">>), Str(<<"N">>), Num(begin), Num(ending), Num(deposits),
            Num(withdrawals), Str(<<"N", "A">>), Num(3 * Scale), Str(<<"5">>),
            Undefined, Undefined, Undefined, Undefined)

ExampleAccount == PlainAccount(1780440, 152330520, 151000000, 449920)

\* the raw value of opposite sign: -x of a number x, "-x" of a string "x"
\* that starts a number, "x" of such a "-x"
Negated(v) ==
    CASE IsNumber(v) -> JsNeg(v)
      [] v.t = "string" /\ v.s # <<>> /\ Head(v.s) \in Digits \cup {"."} -> Str(<<"-">> \o v.s)
      [] v.t = "string" /\ Len(v.s) > 1 /\ Head(v.s) = "-" /\ v.s[2] \in Digits \cup {"."} ->
           Str(Tail(v.s))
      [] OTHER -> v

RawAccounts ==
    {NullEntry, EmptyAccount, ExampleAccount}
    \cup {UniformAccount(v) : v \in JsValues}
    \cup {[ExampleAccount EXCEPT !.total_withdrawals = Negated(v)] :
              v \in {Num(152330520), Str(<<"1", "5", "2", "3", "3", "0", ".", "5", "2">>)}}

\* parsed_json that is an object
ParsedJson(bank, month, year, accounts) ==
    [kind |-> "object", bank_name |-> bank, statement_month |-> month,
     statement_year |-> year, accounts |-> accounts]

\* parsed_json that is no object: "absent", "null", "falsy" (0, "", false) or
\* "truthy" (another primitive)
PrimitivePj(k) ==
    [kind |-> k, bank_name |-> Undefined, statement_month |-> Undefined,
     statement_year |-> Undefined, accounts |-> NoAccounts]

\* an item (envelope) that is an object
Item(pj, batch, name) ==
    [kind |-> "object", parsed_json |-> pj, batch_id |-> batch, filename |-> name]

\* an item that is undefined or null
NonObjectItem(k) ==
    [kind |-> k, parsed_json |-> PrimitivePj("absent"), batch_id |-> Undefined,
     filename |-> Undefined]

ArrayOf(entries) == [kind |-> "array", items |-> entries]

MaxAccounts == 2      \* entries of a generated accounts array

EntrySamples ==
    {NullEntry, EmptyAccount, ExampleAccount, UniformAccount(Str(<<"N", "A">>)),
     UniformAccount(Obj)}

AccountsSamples ==
    {NoAccounts, [kind |-> "null", items |-> <<>>], [kind |-> "nonarray", items |-> <<>>]}
    \cup {ArrayOf(xs) : xs \in SeqsUpTo(EntrySamples, MaxAccounts)}

MonthSamples ==
    {Undefined, Num(8 * Scale), Num(2 * Scale), Num(12 * Scale), Num(13 * Scale),
     Num(0), Num(-1 * Scale), Num(2500), Str(<<"0", "8">>), Str(<<"N", "A">>)}

YearSamples ==
    {Undefined, Num(2024 * Scale), Num(2025 * Scale), Num(1900 * Scale), Num(0),
     Str(<<"2", "0", "2", "5">>), Str(<<"N", "A">>), Num(300000 * Scale), PosInf}

BatchIdSamples == {Undefined, Str(<<>>), Str(<<"B", "1">>)}

FilenameSamples ==
    {Undefined, Str(<<"a", ".", "j", "s", "o", "n">>),
     Str(<<"a">> \o ParsingResultSuffix),
     Str(<<"a", "_", "P", "A", "R", "S", "I", "N", "G", "_", "r", "e", "s", "u", "l", "t",
           ".", "J", "S", "O", "N">>),
     Str(<<"a">> \o ParsingResultSuffix \o ParsingResultSuffix),
     Str(<<"a">> \o ParsingResultSuffix \o <<".", "x">>),
     Str(ParsingResultSuffix), Str(<<>>), Null}

BankName == Str(<<"B", "a", "n", "k">>)

Envelopes ==
    {NonObjectItem("undefined"), NonObjectItem("null")}
    \cup {Item(PrimitivePj(k), Str(<<"B", "1">>), Undefined) :
              k \in {"absent", "null", "falsy", "truthy"}}
    \cup {Item(ParsedJson(BankName, Num(8 * Scale), Num(2025 * Scale), a),
               Str(<<"B", "1">>), Undefined) : a \in AccountsSamples}
    \cup {Item(ParsedJson(BankName, m, y, ArrayOf(<<ExampleAccount>>)),
               Str(<<"B", "1">>), Undefined) : m \in MonthSamples, y \in YearSamples}
    \cup {Item(ParsedJson(BankName, Num(8 * Scale), Num(2025 * Scale),
                          ArrayOf(<<ExampleAccount>>)), b, f) :
              b \in BatchIdSamples, f \in FilenameSamples}

-----------------------------------------------------------------------------
(* Idle values of the parts a specification does not exercise *)

\* a response: its status, whether its body parses as JSON, and the body's
\* error and data properties
NoData == [kind |-> "absent", items |-> <<>>]
NoResponse == [status |-> 0, json |-> FALSE, error |-> Undefined, data |-> NoData]
JsonResponse(status, err, d) == [status |-> status, json |-> TRUE, error |-> err, data |-> d]
MalformedResponse(status) == [status |-> status, json |-> FALSE, error |-> Undefined, data |-> NoData]

\* a message, kept whole
Message(m) == Str(<<m>>)
Idle == [status |-> "idle", value |-> <<>>]
Returned(x) == [status |-> "returned", value |-> <<x>>]
Threw == [status |-> "threw", value |-> <<>>]

ServerIdle ==
    /\ env = [accountName |-> TRUE, accountKey |-> TRUE, sasToken |-> FALSE]
    /\ network = TRUE
    /\ listing = [ok |-> TRUE, items |-> <<>>]
    /\ serverPc = "idle"
    /\ filePaths = <<>>
    /\ taskPc = <<>>
    /\ results = <<>>
    /\ overtaken = FALSE

PageIdle ==
    /\ clientPc = "idle"
    /\ loading = TRUE
    /\ error = Null
    /\ reconciliationData = <<>>
    /\ clock = 0

\* the objects of a call: `given' are the identities of the raw account and
\* of the entries of the raw accounts array, `mapped', `row' and `again' those
\* of the accounts the calls returned, `next' the first identity not in use
HeapOf(account, item) ==
    LET accounts == IF item.kind = "object" THEN PjAccounts(item.parsed_json) ELSE NoAccounts
    IN  [given |-> [i \in 1..(1 + Len(accounts.items)) |-> i],
         mapped |-> <<>>, row |-> <<>>, again |-> <<>>,
         next |-> 2 + Len(accounts.items)]

\* the object literal of mapAccountData creates one object at every call
NewObjects(list, first) == [i \in DOMAIN list |-> first + i - 1]

\* the accounts array of an item, empty where there is none
AccountEntries(item) ==
    IF item.kind = "object" THEN PjAccounts(item.parsed_json).items ELSE <<>>

NormalizerIdle ==
    /\ rawValue = Undefined /\ floatOut = Idle /\ intOut = Idle
    /\ rawAccount = EmptyAccount /\ mappedAccount = Idle /\ mirrorMapped = Idle
    /\ adlsData = NonObjectItem("undefined") /\ mapOutcome = Idle
    /\ mapOutcomeAgain = Idle
    /\ heap = HeapOf(EmptyAccount, NonObjectItem("undefined"))

RowIdle ==
    /\ data = <<>>
    /\ selectedAccountIndex = 0
    /\ rendered = {}

\* a response of a route of one case: no field data when data is empty
NoAnswer == [status |-> 0, error |-> "", data |-> <<>>]

CaseIdle ==
    /\ caseId = Null
    /\ directories = [ok |-> TRUE, items |-> <<>>]
    /\ casePc = "idle"
    /\ readPath = <<>>
    /\ fileContent = <<>>
    /\ answer = NoAnswer

-----------------------------------------------------------------------------
(* The value normalizer and the account mapping, called on their own *)

\* safeParseFloat(rawValue)
CallSafeParseFloat ==
    /\ floatOut = Idle
    /\ floatOut' = Returned(safeParseFloat(rawValue))
    /\ UNCHANGED <<rawValue, intOut, rawAccount, mappedAccount, mirrorMapped,
                   adlsData, mapOutcome, mapOutcomeAgain, heap>>
    /\ UNCHANGED <<serverVars, response, pageVars, rowVars, caseVars>>

\* safeParseInt(rawValue)
CallSafeParseInt ==
    /\ intOut = Idle
    /\ intOut' = Returned(safeParseInt(rawValue))
    /\ UNCHANGED <<rawValue, floatOut, rawAccount, mappedAccount, mirrorMapped,
                   adlsData, mapOutcome, mapOutcomeAgain, heap>>
    /\ UNCHANGED <<serverVars, response, pageVars, rowVars, caseVars>>

MapAccountOutcome(account) ==
    IF mapAccountDataThrows(account) THEN Threw ELSE Returned(mapAccountData(account))

\* mapAccountData(rawAccount), and mapAccountData of the account that differs
\* from it in the sign of total_withdrawals only
CallMapAccountData ==
    /\ mappedAccount = Idle
    /\ mappedAccount' = MapAccountOutcome(rawAccount)
    /\ mirrorMapped' =
           MapAccountOutcome([rawAccount EXCEPT
                                  !.total_withdrawals = Negated(rawAccount.total_withdrawals)])
    /\ heap' = IF mapAccountDataThrows(rawAccount)
               THEN heap
               ELSE [heap EXCEPT !.mapped = <<heap.next, heap.next + 1>>,
                                 !.next = heap.next + 2]
    /\ UNCHANGED <<rawValue, floatOut, intOut, rawAccount, adlsData, mapOutcome, mapOutcomeAgain>>
    /\ UNCHANGED <<serverVars, response, pageVars, rowVars, caseVars>>

\* the mapper that normalizes the accounts of the envelope in place and hands
\* them to the row
CallMapADLSToReconciliationRow_InPlace ==
    /\ mapOutcome = Idle
    /\ \E now \in clock..MaxClock :
           /\ clock' = now
           /\ mapOutcome' = IF mapADLSToReconciliationRowThrows(adlsData)
                            THEN Threw
                            ELSE Returned(mapADLSToReconciliationRow(adlsData, now))
           /\ adlsData' = IF mapADLSToReconciliationRowThrows(adlsData)
                          THEN adlsData
                          ELSE [adlsData EXCEPT !.parsed_json.accounts.items =
                                    mapADLSToReconciliationRow(adlsData, now).accounts]
    /\ heap' = IF mapADLSToReconciliationRowThrows(adlsData)
               THEN heap
               ELSE [heap EXCEPT !.row = [i \in DOMAIN AccountEntries(adlsData) |->
                                             heap.given[1 + i]]]
    /\ UNCHANGED <<rawValue, floatOut, intOut, rawAccount, mappedAccount, mirrorMapped,
                   mapOutcomeAgain>>
    /\ UNCHANGED <<clientPc, loading, error, reconciliationData>>
    /\ UNCHANGED <<serverVars, response, rowVars, caseVars>>

\* mapADLSToReconciliationRow(adlsData), Date.now() reading the time of the
\* call
CallMapADLSToReconciliationRow ==
    /\ mapOutcome = Idle
    /\ \E now \in clock..MaxClock :
           /\ clock' = now
           /\ mapOutcome' = IF mapADLSToReconciliationRowThrows(adlsData)
                            THEN Threw
                            ELSE Returned(mapADLSToReconciliationRow(adlsData, now))
    /\ heap' = IF mapADLSToReconciliationRowThrows(adlsData)
               THEN heap
               ELSE [heap EXCEPT !.row = NewObjects(AccountEntries(adlsData), heap.next),
                                 !.next = heap.next + Len(AccountEntries(adlsData))]
    /\ UNCHANGED <<rawValue, floatOut, intOut, rawAccount, mappedAccount, mirrorMapped,
                   adlsData, mapOutcomeAgain>>
    /\ UNCHANGED <<clientPc, loading, error, reconciliationData>>
    /\ UNCHANGED <<serverVars, response, rowVars, caseVars>>

\* mapADLSToReconciliationRow(adlsData) called a second time, at the same
\* time or later
CallMapADLSToReconciliationRowAgain ==
    /\ mapOutcome # Idle
    /\ mapOutcomeAgain = Idle
    /\ \E now \in clock..MaxClock :
           /\ clock' = now
           /\ mapOutcomeAgain' = IF mapADLSToReconciliationRowThrows(adlsData)
                                 THEN Threw
                                 ELSE Returned(mapADLSToReconciliationRow(adlsData, now))
    /\ heap' = IF mapADLSToReconciliationRowThrows(adlsData)
               THEN heap
               ELSE [heap EXCEPT !.again = NewObjects(AccountEntries(adlsData), heap.next),
                                 !.next = heap.next + Len(AccountEntries(adlsData))]
    /\ UNCHANGED <<rawValue, floatOut, intOut, rawAccount, mappedAccount, mirrorMapped,
                   adlsData, mapOutcome>>
    /\ UNCHANGED <<clientPc, loading, error, reconciliationData>>
    /\ UNCHANGED <<serverVars, response, rowVars, caseVars>>

InitNormalizer ==
    /\ ServerIdle /\ response = NoResponse /\ PageIdle /\ RowIdle /\ CaseIdle
    /\ floatOut = Idle /\ intOut = Idle
    /\ mappedAccount = Idle /\ mirrorMapped = Idle /\ mapOutcome = Idle
    /\ mapOutcomeAgain = Idle
    /\ \/ /\ rawValue \in JsValues
          /\ rawAccount = EmptyAccount
          /\ adlsData = NonObjectItem("undefined")
       \/ /\ rawValue = Undefined
          /\ rawAccount \in RawAccounts
          /\ adlsData = NonObjectItem("undefined")
       \/ /\ rawValue = Undefined
          /\ rawAccount = EmptyAccount
          /\ adlsData \in Envelopes
    /\ heap = HeapOf(rawAccount, adlsData)

NextNormalizer ==
    \/ CallSafeParseFloat
    \/ CallSafeParseInt
    \/ CallMapAccountData
    \/ CallMapADLSToReconciliationRow
    \/ CallMapADLSToReconciliationRowAgain

SpecNormalizer == InitNormalizer /\ [][NextNormalizer]_vars
-----------------------------------------------------------------------------
(* ReconciliationRowComponent: the verdict of the selected account *)

\* ending balances around the calculated balance `base`, in thousandths
Around(base) == {base + k : k \in -MaxMilli..MaxMilli}

VerdictAccounts ==
    {PlainAccount(0, 0, 0, e) : e \in Around(0)}
    \cup {PlainAccount(1780440, w, 151000000, e) :
              w \in {152330520, -152330520},
              e \in {449920, 500000, 449921, 449926, 449925, 449915}}

\* the accounts arrays of the statements shown: none, one account, an account
\* with the one whose difference is the opposite, an account beside the example
VerdictAccountLists ==
    {<<>>}
    \cup {<<a>> : a \in VerdictAccounts}
    \cup {<<PlainAccount(0, 0, 0, e), PlainAccount(0, 0, 0, -e)>> : e \in Around(0)}
    \cup {<<a, ExampleAccount>> : a \in VerdictAccounts}

\* the rows these statements are mapped to
VerdictRows ==
    {mapADLSToReconciliationRow(
         Item(ParsedJson(BankName, Num(8 * Scale), Num(2025 * Scale), ArrayOf(xs)),
              Str(<<"B", "1">>), Undefined), 0) :
         xs \in VerdictAccountLists}

\* what one render of the component shows
Render(row, index) ==
    [account |-> SelectedAccount(row, index),
     difference |-> Difference(row, index),
     isHarmonized |-> isHarmonized(row, index)]

InitRow ==
    /\ ServerIdle /\ response = NoResponse /\ PageIdle /\ NormalizerIdle /\ CaseIdle
    /\ data \in VerdictRows
    /\ selectedAccountIndex = 0
    /\ rendered = {Render(data, 0)}

\* handleAccountSelect(index), from the dropdown's one button per account,
\* and the render that follows
handleAccountSelect ==
    \E index \in 0..(Len(data.accounts) - 1) :
        /\ selectedAccountIndex' = index
        /\ rendered' = rendered \cup {Render(data, index)}
        /\ UNCHANGED data
        /\ UNCHANGED <<serverVars, response, pageVars, normVars, caseVars>>

NextRow == handleAccountSelect

SpecRow == InitRow /\ [][NextRow]_vars
-----------------------------------------------------------------------------
(* fetch-adls: GET *)

EndsWith(cs, suffix) ==
    Len(cs) >= Len(suffix) /\ SubSeq(cs, Len(cs) - Len(suffix) + 1, Len(cs)) = suffix

\* filePath.split('/').pop()
RECURSIVE LastSegment(_)
LastSegment(cs) ==
    IF \E i \in DOMAIN cs : cs[i] = "/"
    THEN LastSegment(Tail(cs))
    ELSE cs

\* what reading a file and parsing it gives: the read fails, the text is no
\* JSON, or the parsed value
ReadError == [outcome |-> "read_error", value |-> NonObjectItem("null")]
BadJson == [outcome |-> "bad_json", value |-> NonObjectItem("null")]
Json(item) == [outcome |-> "json", value |-> item]

StatementOf(accounts, batch) ==
    Item(ParsedJson(BankName, Num(8 * Scale), Num(2025 * Scale), accounts), batch, Undefined)

GoodStatement == StatementOf(ArrayOf(<<ExampleAccount>>), Str(<<"B", "1">>))
UnbatchedStatement == StatementOf(ArrayOf(<<ExampleAccount, EmptyAccount>>), Undefined)
NoDetailItem == Item(PrimitivePj("absent"), Str(<<"B", "1">>), Undefined)
NoAccountsItem == StatementOf(NoAccounts, Str(<<"B", "1">>))
NullEntryItem == StatementOf(ArrayOf(<<NullEntry>>), Str(<<"B", "1">>))

FileContents ==
    {ReadError, BadJson, Json(NonObjectItem("null")), Json(NoDetailItem),
     Json(NoAccountsItem), Json(NullEntryItem), Json(GoodStatement),
     Json(UnbatchedStatement)}

\* the name of the path item at position i: odd positions carry a leading "/"
PathName(i, extension) ==
    (IF i % 2 = 1 THEN <<"/">> ELSE <<>>) \o <<"d", "/", "f", DigitChar(i)>> \o extension

PathItemsAt(i) ==
    {[isDirectory |-> TRUE, name |-> PathName(i, <<>>), content |-> ReadError],
     [isDirectory |-> FALSE, name |-> PathName(i, <<".", "t", "x", "t">>), content |-> ReadError]}
    \cup {[isDirectory |-> FALSE, name |-> PathName(i, ParsingResultSuffix), content |-> c] :
              c \in FileContents}

RECURSIVE ListingsOfLen(_)
ListingsOfLen(k) ==
    IF k = 0 THEN {<<>>}
    ELSE {Append(xs, x) : xs \in ListingsOfLen(k - 1), x \in PathItemsAt(k)}

Listings == UNION {ListingsOfLen(k) : k \in 0..MaxPaths}

Environments ==
    {[accountName |-> TRUE, accountKey |-> TRUE, sasToken |-> FALSE],
     [accountName |-> FALSE, accountKey |-> TRUE, sasToken |-> TRUE],
     [accountName |-> TRUE, accountKey |-> FALSE, sasToken |-> FALSE]}

\* pathItem.isDirectory === false && pathItem.name?.endsWith('.json')
IsJsonFile(pathItem) ==
    pathItem.isDirectory = FALSE /\ EndsWith(pathItem.name, <<".", "j", "s", "o", "n">>)

\* pathItem.name.startsWith('/') ? pathItem.name.slice(1) : pathItem.name
FilePathOf(pathItem) ==
    IF pathItem.name # <<>> /\ Head(pathItem.name) = "/" THEN Tail(pathItem.name)
    ELSE pathItem.name

\* the listing's JSON files, in the listing's order
JsonFilesOf(items) == SelectSeq(items, IsJsonFile)

\* !jsonData.parsed_json || !jsonData.parsed_json.accounts
\*     || !Array.isArray(jsonData.parsed_json.accounts)
InvalidStructure(item) ==
    \/ MissingParsedJson(item)
    \/ PjAccounts(item.parsed_json).kind # "array"

\* filePath.split('/').pop() || filePath
FileNameOf(filePath) ==
    IF LastSegment(filePath) # <<>> THEN LastSegment(filePath) ELSE filePath

\* what filePromises[i] resolves with: <<>> for null, <<jsonData>> otherwise.
\* A failed read, a text that is no JSON and the property read on a parsed
\* null all raise inside the try and give null.
FileResult(filePath, content) ==
    IF content.outcome # "json" THEN <<>>
    ELSE IF content.value.kind = "null" THEN <<>>
    ELSE IF InvalidStructure(content.value) THEN <<>>
    ELSE <<[content.value EXCEPT !.filename = Str(FileNameOf(filePath))]>>

\* results.filter(file => file !== null)
RECURSIVE NonNull(_)
NonNull(rs) ==
    IF rs = <<>> THEN <<>> ELSE rs[1] \o NonNull(Tail(rs))

ConfigError(e) ==
    IF ~e.accountName
    THEN Message("AZURE_STORAGE_ACCOUNT_NAME is required. Please check your .env.local file.")
    ELSE Message("Either AZURE_STORAGE_ACCOUNT_KEY or AZURE_STORAGE_SAS_TOKEN is required. Please check your .env.local file.")

\* GET up to its first await: the two configuration checks
GetStart ==
    /\ serverPc = "requested"
    /\ IF ~env.accountName \/ (~env.accountKey /\ ~env.sasToken)
       THEN /\ response' = JsonResponse(500, ConfigError(env), NoData)
            /\ serverPc' = "responded"
       ELSE /\ serverPc' = "listing"
            /\ UNCHANGED response
    /\ UNCHANGED <<env, network, listing, filePaths, taskPc, results, overtaken>>
    /\ UNCHANGED <<pageVars, normVars, rowVars, caseVars>>

\* the handler that answers a failed listing with an empty batch
ListPaths_EmptyOnFailure ==
    /\ serverPc = "listing"
    /\ IF listing.ok
       THEN /\ filePaths' = [i \in DOMAIN JsonFilesOf(listing.items) |->
                                 FilePathOf(JsonFilesOf(listing.items)[i])]
            /\ taskPc' = [i \in DOMAIN JsonFilesOf(listing.items) |-> "reading"]
            /\ results' = [i \in DOMAIN JsonFilesOf(listing.items) |-> <<>>]
            /\ serverPc' = "reading"
            /\ UNCHANGED response
       ELSE /\ response' = JsonResponse(200, Undefined, ArrayOf(<<>>))
            /\ serverPc' = "responded"
            /\ UNCHANGED <<filePaths, taskPc, results>>
    /\ UNCHANGED <<env, network, listing, overtaken>>
    /\ UNCHANGED <<pageVars, normVars, rowVars, caseVars>>

\* the listing ends: filePaths is collected and every read is started; a
\* listing that fails is caught by the handler's catch
ListPaths ==
    /\ serverPc = "listing"
    /\ IF listing.ok
       THEN /\ filePaths' = [i \in DOMAIN JsonFilesOf(listing.items) |->
                                 FilePathOf(JsonFilesOf(listing.items)[i])]
            /\ taskPc' = [i \in DOMAIN JsonFilesOf(listing.items) |-> "reading"]
            /\ results' = [i \in DOMAIN JsonFilesOf(listing.items) |-> <<>>]
            /\ serverPc' = "reading"
            /\ UNCHANGED response
       ELSE /\ response' = JsonResponse(500,
                               Message("Failed to fetch data from Azure Data Lake Storage"), NoData)
            /\ serverPc' = "responded"
            /\ UNCHANGED <<filePaths, taskPc, results>>
    /\ UNCHANGED <<env, network, listing, overtaken>>
    /\ UNCHANGED <<pageVars, normVars, rowVars, caseVars>>

\* the values kept in the order the reads settle
StoreResult_CompletionOrder(rs, i, r) ==
    [rs EXCEPT ![1 + Cardinality({j \in DOMAIN taskPc : taskPc[j] = "settled"})] = r]

\* where filePromises[i] leaves its value: Promise.all keeps each value at the
\* index of its promise
StoreResult(rs, i, r) == [rs EXCEPT ![i] = r]

\* filePromises[i] settles: the read and the stream have ended, or one of
\* them has failed; the text is parsed and validated.  The reads share no
\* state, so the two awaits of one read are taken together.
FileSettles(i) ==
    /\ serverPc = "reading"
    /\ taskPc[i] = "reading"
    /\ taskPc' = [taskPc EXCEPT ![i] = "settled"]
    /\ results' = StoreResult(results, i,
                      FileResult(filePaths[i], JsonFilesOf(listing.items)[i].content))
    /\ overtaken' = (overtaken \/ \E j \in 1..(i - 1) : taskPc[j] = "reading")
    /\ UNCHANGED <<env, network, listing, serverPc, filePaths, response>>
    /\ UNCHANGED <<pageVars, normVars, rowVars, caseVars>>

\* the handler that answers 404 when no file is left
Respond_NotFoundWhenEmpty ==
    /\ serverPc = "reading"
    /\ \A i \in DOMAIN taskPc : taskPc[i] = "settled"
    /\ response' = IF NonNull(results) = <<>>
                   THEN JsonResponse(404, Message("No files found"), NoData)
                   ELSE JsonResponse(200, Undefined, ArrayOf(NonNull(results)))
    /\ serverPc' = "responded"
    /\ UNCHANGED <<env, network, listing, filePaths, taskPc, results, overtaken>>
    /\ UNCHANGED <<pageVars, normVars, rowVars, caseVars>>

\* Promise.all resolves once every read has settled; the nulls are filtered
\* out and the files are returned
Respond ==
    /\ serverPc = "reading"
    /\ \A i \in DOMAIN taskPc : taskPc[i] = "settled"
    /\ response' = JsonResponse(200, Undefined, ArrayOf(NonNull(results)))
    /\ serverPc' = "responded"
    /\ UNCHANGED <<env, network, listing, filePaths, taskPc, results, overtaken>>
    /\ UNCHANGED <<pageVars, normVars, rowVars, caseVars>>
-----------------------------------------------------------------------------
(* Home: fetchData *)

\* if (!item.parsed_json || !item.parsed_json.accounts
\*     || !Array.isArray(item.parsed_json.accounts)) return;
SkippedByGuard(item) == InvalidStructure(item)

\* the loop that pushes one row for each account of an item
RECURSIVE MapItems_RowPerAccount(_, _)
MapItems_RowPerAccount(items, times) ==
    IF items = <<>> THEN <<>>
    ELSE (IF SkippedByGuard(Head(items)) THEN <<>>
          ELSE IF mapADLSToReconciliationRowThrows(Head(items)) THEN <<>>
          ELSE LET row == mapADLSToReconciliationRow(Head(items), Head(times))
               IN  [i \in DOMAIN row.accounts |-> [row EXCEPT !.accounts = <<row.accounts[i]>>]])
         \o MapItems_RowPerAccount(Tail(items), Tail(times))

\* the forEach over result.data: an item the guard rejects, or on which
\* mapADLSToReconciliationRow raises, is skipped; every other item's row is
\* pushed.  times[i] is what Date.now() reads while item i is mapped.
RECURSIVE MapItems(_, _)
MapItems(items, times) ==
    IF items = <<>> THEN <<>>
    ELSE (IF SkippedByGuard(Head(items)) THEN <<>>
          ELSE IF mapADLSToReconciliationRowThrows(Head(items)) THEN <<>>
          ELSE <<mapADLSToReconciliationRow(Head(items), Head(times))>>)
         \o MapItems(Tail(items), Tail(times))

\* the loop without its inner try: a raise of the mapper leaves the loop too
LoopThrows_NoInnerTry(items) ==
    \E i \in DOMAIN items :
        \/ items[i].kind \in {"null", "undefined"}
        \/ ~SkippedByGuard(items[i]) /\ mapADLSToReconciliationRowThrows(items[i])

\* reading item.parsed_json of an item that is null or undefined raises
\* outside the inner try
LoopThrows(items) == \E i \in DOMAIN items : items[i].kind \in {"null", "undefined"}

\* the readings of a clock that never runs backwards
TimesFrom(from, n) ==
    {ts \in [1..n -> from..MaxClock] : \A i \in 1..(n - 1) : ts[i] <= ts[i + 1]}

\* the effect run at mount: setLoading(true), setError(null), fetch
FetchData ==
    /\ clientPc = "mounted"
    /\ loading' = TRUE
    /\ error' = Null
    /\ clientPc' = "awaiting"
    /\ serverPc' = IF network THEN "requested" ELSE serverPc
    /\ UNCHANGED <<reconciliationData, clock, response>>
    /\ UNCHANGED <<env, network, listing, filePaths, taskPc, results, overtaken>>
    /\ UNCHANGED <<normVars, rowVars, caseVars>>

\* the rejection handled without the finally
FetchRejects_NoFinally ==
    /\ clientPc = "awaiting"
    /\ ~network
    /\ error' = Message("Failed to fetch")
    /\ clientPc' = "settled"
    /\ UNCHANGED <<loading, reconciliationData, clock, response>>
    /\ UNCHANGED <<serverVars, normVars, rowVars, caseVars>>

\* fetch rejects: catch, then finally
FetchRejects ==
    /\ clientPc = "awaiting"
    /\ ~network
    /\ error' = Message("Failed to fetch")
    /\ loading' = FALSE
    /\ clientPc' = "settled"
    /\ UNCHANGED <<reconciliationData, clock, response>>
    /\ UNCHANGED <<serverVars, normVars, rowVars, caseVars>>

\* fetch resolves: the rest of fetchData, with its catch and finally
HandleResponse ==
    /\ clientPc = "awaiting"
    /\ serverPc = "responded"
    /\ \E times \in TimesFrom(clock, IF response.data.kind = "array"
                                     THEN Len(response.data.items) ELSE 0) :
        /\ IF ~response.json
           THEN /\ error' = Message("Unexpected token in JSON")
                /\ UNCHANGED reconciliationData
           ELSE IF response.status \notin 200..299
           THEN /\ error' = OrElse(response.error, Message("Failed to fetch data"))
                /\ UNCHANGED reconciliationData
           ELSE IF response.data.kind # "array"
           THEN /\ error' = Message("Cannot read properties of undefined (reading 'forEach')")
                /\ UNCHANGED reconciliationData
           ELSE IF LoopThrows(response.data.items)
           THEN /\ error' = Message("Cannot read properties of null (reading 'parsed_json')")
                /\ UNCHANGED reconciliationData
           ELSE /\ reconciliationData' = MapItems(response.data.items, times)
                /\ UNCHANGED error
        /\ clock' = IF times = <<>> THEN clock ELSE times[Len(times)]
    /\ loading' = FALSE
    /\ clientPc' = "settled"
    /\ UNCHANGED response
    /\ UNCHANGED <<serverVars, normVars, rowVars, caseVars>>

\* what Home renders: the skeleton while loading, the error panel when error
\* is set, "No data found" when there is no row, and otherwise one
\* ReconciliationRowComponent for each row
HomeRender ==
    IF loading THEN [view |-> "loading", rows |-> 0]
    ELSE IF Truthy(error) THEN [view |-> "error", rows |-> 0]
    ELSE IF Len(reconciliationData) = 0 THEN [view |-> "empty", rows |-> 0]
    ELSE [view |-> "rows", rows |-> Len(reconciliationData)]

-----------------------------------------------------------------------------
(* The page loading from the route *)

Init ==
    /\ env \in Environments
    /\ network \in BOOLEAN
    /\ listing \in {[ok |-> TRUE, items |-> l] : l \in Listings}
                   \cup {[ok |-> FALSE, items |-> <<>>]}
    /\ serverPc = "idle"
    /\ filePaths = <<>> /\ taskPc = <<>> /\ results = <<>> /\ overtaken = FALSE
    /\ response = NoResponse
    /\ clientPc = "mounted"
    /\ loading = TRUE /\ error = Null /\ reconciliationData = <<>> /\ clock = 0
    /\ NormalizerIdle /\ RowIdle /\ CaseIdle

Next ==
    \/ FetchData
    \/ FetchRejects
    \/ GetStart
    \/ ListPaths
    \/ \E i \in DOMAIN taskPc : FileSettles(i)
    \/ Respond
    \/ HandleResponse

Spec == Init /\ [][Next]_vars

-----------------------------------------------------------------------------
(* The page alone, the route answering anything *)

PageItems ==
    {NoDetailItem, Item(PrimitivePj("truthy"), Undefined, Undefined), NoAccountsItem,
     StatementOf([kind |-> "nonarray", items |-> <<>>], Str(<<"B", "1">>)),
     NullEntryItem, GoodStatement, UnbatchedStatement}

PageResponses ==
    {JsonResponse(200, Undefined, ArrayOf(items)) : items \in SeqsUpTo(PageItems, MaxPaths)}
    \cup {JsonResponse(200, Undefined, NoData), MalformedResponse(200),
          MalformedResponse(500), JsonResponse(500, Undefined, NoData),
          JsonResponse(500, Message("Failed to fetch data from Azure Data Lake Storage"),
                       NoData)}

InitPage ==
    /\ ServerIdle
    /\ response = NoResponse
    /\ clientPc = "mounted"
    /\ loading = TRUE /\ error = Null /\ reconciliationData = <<>> /\ clock = 0
    /\ NormalizerIdle /\ RowIdle /\ CaseIdle

\* /api/fetch-adls as the page sees it: any response
RouteAnswers ==
    /\ serverPc = "requested"
    /\ response' \in PageResponses
    /\ serverPc' = "responded"
    /\ UNCHANGED <<env, network, listing, filePaths, taskPc, results, overtaken>>
    /\ UNCHANGED <<pageVars, normVars, rowVars, caseVars>>

NextPage ==
    \/ FetchData
    \/ RouteAnswers
    \/ HandleResponse

SpecPage == InitPage /\ [][NextPage]_vars

-----------------------------------------------------------------------------
(* One load of the page to its end: the fetch rejects or is answered by
   anything, and every step that can be taken is taken *)

MaxLoadItems == 2     \* items of an answered batch

LoadItems ==
    {NoAccountsItem, NullEntryItem, NonObjectItem("null"), GoodStatement, UnbatchedStatement}

LoadResponses ==
    {JsonResponse(200, Undefined, ArrayOf(items)) : items \in SeqsUpTo(LoadItems, MaxLoadItems)}
    \cup {JsonResponse(200, Undefined, NoData), MalformedResponse(200),
          MalformedResponse(500), JsonResponse(500, Undefined, NoData),
          JsonResponse(500, Message("Failed to fetch data from Azure Data Lake Storage"),
                       NoData)}

\* the fetch resolves with a response
FetchResolves ==
    /\ serverPc = "requested"
    /\ response' \in LoadResponses
    /\ serverPc' = "responded"
    /\ UNCHANGED <<env, network, listing, filePaths, taskPc, results, overtaken>>
    /\ UNCHANGED <<pageVars, normVars, rowVars, caseVars>>

InitLoad ==
    /\ env = [accountName |-> TRUE, accountKey |-> TRUE, sasToken |-> FALSE]
    /\ network \in BOOLEAN
    /\ listing = [ok |-> TRUE, items |-> <<>>]
    /\ serverPc = "idle"
    /\ filePaths = <<>> /\ taskPc = <<>> /\ results = <<>> /\ overtaken = FALSE
    /\ response = NoResponse
    /\ clientPc = "mounted"
    /\ loading = TRUE /\ error = Null /\ reconciliationData = <<>> /\ clock = 0
    /\ NormalizerIdle /\ RowIdle /\ CaseIdle

NextLoad ==
    \/ FetchData
    \/ FetchRejects
    \/ FetchResolves
    \/ HandleResponse

\* the effect runs after the mount, the fetch settles, and the continuation
\* of an await that has settled runs
SpecLoad ==
    /\ InitLoad
    /\ [][NextLoad]_vars
    /\ WF_vars(FetchData)
    /\ WF_vars(FetchRejects \/ FetchResolves)
    /\ WF_vars(HandleResponse)
-----------------------------------------------------------------------------
(* The routes of one case: /api/fetch-bsi-analysis and the funding transfer
   count *)

CaseWord == <<"C", "a", "s", "e">>

\* the first match of /Case(\d+)/, or of /Case(\d+)/i, in cs: <<>> when there
\* is none, else <<match[0], match[1]>>
RECURSIVE MatchCase(_, _)
MatchCase(cs, ignoreCase) ==
    IF Len(cs) < 5 THEN <<>>
    ELSE LET word == SubSeq(cs, 1, 4)
             found == IF ignoreCase
                      THEN \A i \in 1..4 : ToLower(word[i]) = ToLower(CaseWord[i])
                      ELSE word = CaseWord
             digits == DigitPrefix(SubSeq(cs, 5, Len(cs)))
         IN  IF found /\ digits # <<>> THEN <<word \o digits, digits>>
             ELSE MatchCase(Tail(cs), ignoreCase)

Answer(status, err) == [status |-> status, error |-> err, data |-> <<>>]
DataAnswer(d) == [status |-> 200, error |-> "", data |-> <<d>>]

\* pathItem.isDirectory && pathItem.name, in the order listed
DirectoriesOf(items) ==
    LET kept == SelectSeq(items, LAMBDA pathItem : pathItem.isDirectory /\ pathItem.name # <<>>)
    IN  [i \in DOMAIN kept |-> kept[i].name]

\* the loop of lines 99-108: the first directory whose last segment has
\* caseId as its first match of /Case(\d+)/; <<>> for null
RECURSIVE matchedDirectory(_, _)
matchedDirectory(dirs, id) ==
    IF dirs = <<>> THEN <<>>
    ELSE LET caseMatch == MatchCase(LastSegment(Head(dirs)), FALSE)
         IN  IF caseMatch # <<>> /\ caseMatch[1] = id
             THEN <<Head(dirs)>>
             ELSE matchedDirectory(Tail(dirs), id)

BsiSuffix == <<"_", "b", "s", "i", "_", "a", "n", "a", "l", "y", "s", "i", "s", ".", "j", "s", "o", "n">>

\* `${matchedDirectory}/${caseId}_bsi_analysis.json`
bsiAnalysisPath(dir, id) == dir \o <<"/">> \o id \o BsiSuffix

\* GET of fetch-bsi-analysis up to the listing: the caseId and the
\* configuration are checked
BsiGet ==
    /\ casePc = "bsi"
    /\ IF ~Truthy(caseId)
       THEN /\ answer' = Answer(400, "caseId parameter is required")
            /\ casePc' = "bsi_responded"
       ELSE IF ~env.accountName
       THEN /\ answer' = Answer(500, "AZURE_STORAGE_ACCOUNT_NAME is required")
            /\ casePc' = "bsi_responded"
       ELSE IF ~env.accountKey /\ ~env.sasToken
       THEN /\ answer' = Answer(500, "AZURE_STORAGE_ACCOUNT_KEY or AZURE_STORAGE_SAS_TOKEN is required")
            /\ casePc' = "bsi_responded"
       ELSE /\ casePc' = "bsi_listing"
            /\ UNCHANGED answer
    /\ UNCHANGED <<caseId, directories, readPath, fileContent>>
    /\ UNCHANGED <<serverVars, response, pageVars, normVars, rowVars>>

\* the listing ends and the directory of the case is looked for; a listing
\* that fails is caught by the outer catch
BsiList ==
    /\ casePc = "bsi_listing"
    /\ IF ~directories.ok
       THEN /\ answer' = Answer(500, "Failed to fetch BSI analysis data")
            /\ casePc' = "bsi_responded"
            /\ UNCHANGED readPath
       ELSE IF matchedDirectory(DirectoriesOf(directories.items), caseId.s) = <<>>
       THEN /\ answer' = Answer(404, "No directory found matching case")
            /\ casePc' = "bsi_responded"
            /\ UNCHANGED readPath
       ELSE /\ readPath' = bsiAnalysisPath(
                               matchedDirectory(DirectoriesOf(directories.items), caseId.s)[1],
                               caseId.s)
            /\ casePc' = "bsi_reading"
            /\ UNCHANGED answer
    /\ UNCHANGED <<caseId, directories, fileContent>>
    /\ UNCHANGED <<serverVars, response, pageVars, normVars, rowVars>>

\* the read of the file settles: a failed read, a text that is no JSON and
\* the property read on a parsed null raise inside the inner try
BsiRead ==
    /\ casePc = "bsi_reading"
    /\ \E content \in FileContents :
        /\ fileContent' = <<content>>
        /\ answer' = IF content.outcome # "json" \/ content.value.kind = "null"
                     THEN Answer(404, "BSI analysis file not found")
                     ELSE IF InvalidStructure(content.value)
                     THEN Answer(500, "Invalid BSI analysis file structure")
                     ELSE DataAnswer(content.value)
    /\ casePc' = "bsi_responded"
    /\ UNCHANGED <<caseId, directories, readPath>>
    /\ UNCHANGED <<serverVars, response, pageVars, normVars, rowVars>>

FundingLists ==
    <<"mca_deposit", "returned_items", "internal_transfer_deposit",
      "other_transfer_deposit", "standard_deposit">>

\* the count of items whose non_true_revenue is not missing
countNonTrueRevenue_Truthy(items) ==
    IF items.kind # "array" THEN 0
    ELSE Cardinality({i \in DOMAIN items.items : Truthy(items.items[i].non_true_revenue)})

\* if (!items || !Array.isArray(items)) return 0;
\* return items.filter(item => item.non_true_revenue === 1).length
countNonTrueRevenue(items) ==
    IF items.kind # "array" THEN 0
    ELSE Cardinality({i \in DOMAIN items.items :
                          items.items[i].non_true_revenue = Num(1 * Scale)})

fundingTransferCount(account) ==
    countNonTrueRevenue(account.mca_deposit)
    + countNonTrueRevenue(account.returned_items)
    + countNonTrueRevenue(account.internal_transfer_deposit)
    + countNonTrueRevenue(account.other_transfer_deposit)
    + countNonTrueRevenue(account.standard_deposit)

\* the calls of the map of lines 108-127 that raise: a property read on a
\* null account, or on a null item of one of the five arrays
CountingThrows(accounts) ==
    \E i \in DOMAIN accounts :
        \/ accounts[i].entry = "null"
        \/ \E k \in DOMAIN FundingLists :
               /\ accounts[i][FundingLists[k]].kind = "array"
               /\ \E j \in DOMAIN accounts[i][FundingLists[k]].items :
                      accounts[i][FundingLists[k]].items[j].entry = "null"

accountsWithCounts(accounts) ==
    [i \in DOMAIN accounts |->
         [account_number |-> accounts[i].account_number,
          account_type |-> accounts[i].account_type,
          funding_transfer_count |-> fundingTransferCount(accounts[i])]]

\* `${fundingTransferPath}/Case${caseNumber}.json`
filePath(caseNumber) == <<"f", "/">> \o CaseWord \o caseNumber \o <<".", "j", "s", "o", "n">>

\* GET of the funding transfer route up to the read: the caseId, its case
\* number and the configuration are checked
FundingGet ==
    /\ casePc = "funding"
    /\ IF ~Truthy(caseId)
       THEN /\ answer' = Answer(400, "caseId parameter is required")
            /\ casePc' = "funding_responded"
            /\ UNCHANGED readPath
       ELSE IF MatchCase(caseId.s, TRUE) = <<>>
       THEN /\ answer' = Answer(400, "Invalid caseId format")
            /\ casePc' = "funding_responded"
            /\ UNCHANGED readPath
       ELSE IF ~env.accountName
       THEN /\ answer' = Answer(500, "AZURE_STORAGE_ACCOUNT_NAME is required")
            /\ casePc' = "funding_responded"
            /\ UNCHANGED readPath
       ELSE IF ~env.accountKey /\ ~env.sasToken
       THEN /\ answer' = Answer(500, "AZURE_STORAGE_ACCOUNT_KEY or AZURE_STORAGE_SAS_TOKEN is required")
            /\ casePc' = "funding_responded"
            /\ UNCHANGED readPath
       ELSE /\ readPath' = filePath(MatchCase(caseId.s, TRUE)[2])
            /\ casePc' = "funding_reading"
            /\ UNCHANGED answer
    /\ UNCHANGED <<caseId, directories, fileContent>>
    /\ UNCHANGED <<serverVars, response, pageVars, normVars, rowVars>>

\* a list of transactions, and the account holding it under one name
Transactions(values) ==
    ArrayOf([i \in DOMAIN values |-> [entry |-> "object", non_true_revenue |-> values[i]]])

NoList == [kind |-> "absent", items |-> <<>>]

FundingAccount(number, lists) ==
    [entry |-> "object", account_number |-> number, account_type |-> Str(<<"N">>),
     mca_deposit |-> lists[1], returned_items |-> lists[2],
     internal_transfer_deposit |-> lists[3], other_transfer_deposit |-> lists[4],
     standard_deposit |-> lists[5]]

NullAccount == [FundingAccount(Null, [k \in 1..5 |-> NoList]) EXCEPT !.entry = "null"]

MaxTransactions == 2  \* items of a generated list of transactions

RevenueSamples == {Num(1 * Scale), Num(0), Num(2 * Scale), Str(<<"1">>), Undefined}

ListSamples ==
    {NoList, [kind |-> "null", items |-> <<>>], [kind |-> "nonarray", items |-> <<>>],
     ArrayOf(<<[entry |-> "null", non_true_revenue |-> Undefined]>>)}
    \cup {Transactions(values) : values \in SeqsUpTo(RevenueSamples, MaxTransactions)}

\* the accounts of the files: every sampled list under every name beside four
\* lists that are absent, an account counting under every name, and the null
\* entry
FundingAccounts ==
    {FundingAccount(Str(<<"1">>), [k \in 1..5 |-> IF k = name THEN l ELSE NoList]) :
         name \in 1..5, l \in ListSamples}
    \cup {FundingAccount(Str(<<"2">>),
                         [k \in 1..5 |-> Transactions(<<Num(1 * Scale), Num(0)>>)]),
          NullAccount}

FundingFile(accounts) ==
    Json([kind |-> "object", parsed_json |-> [kind |-> "object", accounts |-> accounts]])

FundingContents ==
    {ReadError, BadJson, Json(NonObjectItem("null")), Json(NoDetailItem),
     FundingFile(NoAccounts), FundingFile([kind |-> "nonarray", items |-> <<>>]),
     FundingFile(ArrayOf(<<>>))}
    \cup {FundingFile(ArrayOf(<<a>>)) : a \in FundingAccounts}
    \cup {FundingFile(ArrayOf(<<a, b>>)) :
              a \in {FundingAccount(Str(<<"1">>),
                                    [k \in 1..5 |-> IF k = 1 THEN Transactions(<<Num(1 * Scale)>>)
                                                    ELSE NoList])},
              b \in FundingAccounts}

\* the read of the file settles: a failed read, a text that is no JSON and a
\* property read on null raise inside the inner try
FundingRead ==
    /\ casePc = "funding_reading"
    /\ \E content \in FundingContents :
        /\ fileContent' = <<content>>
        /\ answer' = IF content.outcome # "json" \/ content.value.kind = "null"
                     THEN Answer(404, "File not found")
                     ELSE IF InvalidStructure(content.value)
                     THEN Answer(500, "Invalid file structure")
                     ELSE IF CountingThrows(content.value.parsed_json.accounts.items)
                     THEN Answer(404, "File not found")
                     ELSE DataAnswer(accountsWithCounts(
                                         content.value.parsed_json.accounts.items))
    /\ casePc' = "funding_responded"
    /\ UNCHANGED <<caseId, directories, readPath>>
    /\ UNCHANGED <<serverVars, response, pageVars, normVars, rowVars>>

MaxDirectories == 2   \* path items of a generated listing of the MCA path

Slash(name) == <<"m", "/">> \o name

DirectoryItems ==
    {[isDirectory |-> TRUE, name |-> Slash(<<"0", "1", "_">> \o CaseWord \o <<"1">>)],
     [isDirectory |-> TRUE, name |-> Slash(<<"0", "1", "_">> \o CaseWord \o <<"1", "0", "1">>)],
     [isDirectory |-> TRUE, name |-> Slash(CaseWord \o <<"1", "0">>)],
     [isDirectory |-> TRUE, name |-> Slash(CaseWord \o <<"1">>)],
     [isDirectory |-> TRUE, name |-> Slash(CaseWord \o <<"2", "_">> \o CaseWord \o <<"1">>)],
     [isDirectory |-> TRUE, name |-> Slash(<<"x">>)],
     [isDirectory |-> FALSE, name |-> Slash(CaseWord \o <<"1">>)]}

CaseIds ==
    {Null, Str(<<>>), Str(CaseWord \o <<"1">>), Str(CaseWord \o <<"1", "0">>),
     Str(<<"c", "a", "s", "e", "1">>), Str(<<"x", "C", "A", "S", "E", "0", "7", "y", "8">>),
     Str(<<"c", "a", "s", "e", "_">> \o CaseWord \o <<"3">>), Str(CaseWord),
     Str(<<"1", "2">>)}

InitCase ==
    /\ env \in Environments
    /\ network = TRUE
    /\ listing = [ok |-> TRUE, items |-> <<>>]
    /\ serverPc = "idle"
    /\ filePaths = <<>> /\ taskPc = <<>> /\ results = <<>> /\ overtaken = FALSE
    /\ response = NoResponse /\ PageIdle /\ NormalizerIdle /\ RowIdle
    /\ caseId \in CaseIds
    /\ readPath = <<>>
    /\ fileContent = <<>>
    /\ answer = NoAnswer
    /\ \/ /\ casePc = "bsi"
          /\ directories \in {[ok |-> TRUE, items |-> l] :
                                  l \in SeqsUpTo(DirectoryItems, MaxDirectories)}
                             \cup {[ok |-> FALSE, items |-> <<>>]}
       \/ /\ casePc = "funding"
          /\ directories = [ok |-> TRUE, items |-> <<>>]

NextCase ==
    \/ BsiGet
    \/ BsiList
    \/ BsiRead
    \/ FundingGet
    \/ FundingRead

SpecCase == InitCase /\ [][NextCase]_vars

-----------------------------------------------------------------------------
(* Claims about the load *)

\* an item of valid structure, as the route and the page validate it: an
\* object holding a parsed_json object whose accounts is an array
StructurallyValid(item) ==
    /\ item.kind = "object"
    /\ item.parsed_json.kind = "object"
    /\ item.parsed_json.accounts.kind = "array"

\* C1: once the page has mapped a batch, it holds exactly one row per
\* structurally valid item of the batch and none for any other item (one
\* lacking parsed_json among them), the rows in the order of their items.
C1_OneRowPerValidItem ==
    (clientPc = "settled" /\ response.json /\ response.status = 200
         /\ response.data.kind = "array")
    => LET valid == SelectSeq(response.data.items, StructurallyValid)
       IN  /\ Len(reconciliationData) = Len(valid)
           /\ \A k \in DOMAIN valid :
                  \E t \in 0..MaxClock :
                      reconciliationData[k] = mapADLSToReconciliationRow(valid[k], t)

\* an item nothing is wrong with: of valid structure, every entry of its
\* accounts an object
Sound(item) ==
    /\ StructurallyValid(item)
    /\ \A i \in DOMAIN item.parsed_json.accounts.items :
           item.parsed_json.accounts.items[i].entry = "object"

\* the positions in the listing of the files that can be read, parse as JSON
\* and hold a parsed_json object with an accounts array
RECURSIVE GoodPositions(_, _)
GoodPositions(items, i) ==
    IF i > Len(items) THEN <<>>
    ELSE (IF /\ ~items[i].isDirectory
             /\ EndsWith(items[i].name, <<".", "j", "s", "o", "n">>)
             /\ items[i].content.outcome = "json"
             /\ items[i].content.value.kind = "object"
             /\ items[i].content.value.parsed_json.kind = "object"
             /\ items[i].content.value.parsed_json.accounts.kind = "array"
          THEN <<i>> ELSE <<>>)
         \o GoodPositions(items, i + 1)

\* C2: whatever the order in which the reads settle, the data returned holds
\* exactly the files read, parsed and validated successfully, in the order of
\* the listing.
C2_DataInListingOrder ==
    (serverPc = "responded" /\ response.status = 200)
    => LET good == GoodPositions(listing.items, 1)
       IN  /\ response.data.kind = "array"
           /\ Len(response.data.items) = Len(good)
           /\ \A k \in DOMAIN good :
                  /\ response.data.items[k].parsed_json =
                         listing.items[good[k]].content.value.parsed_json
                  /\ response.data.items[k].batch_id =
                         listing.items[good[k]].content.value.batch_id
                  /\ response.data.items[k].filename =
                         Str(<<"f", DigitChar(good[k])>> \o ParsingResultSuffix)

\* two files were returned although a later read settled before an earlier one
C2_Witness ==
    /\ serverPc = "responded"
    /\ overtaken
    /\ response.data.kind = "array"
    /\ Len(response.data.items) >= 2

EnvComplete == env.accountName /\ (env.accountKey \/ env.sasToken)

\* the positions of the files that fail on their own: unreadable, no JSON, or
\* without the parsed_json.accounts structure, or with an entry the mapper
\* raises on
FailingPositions ==
    {i \in DOMAIN listing.items :
         /\ ~listing.items[i].isDirectory
         /\ EndsWith(listing.items[i].name, <<".", "j", "s", "o", "n">>)
         /\ \/ listing.items[i].content.outcome # "json"
            \/ ~Sound(listing.items[i].content.value)}

\* the positions of the files nothing is wrong with
SoundPositions ==
    SelectSeq(GoodPositions(listing.items, 1),
              LAMBDA i : Sound(listing.items[i].content.value))

\* C3: with the storage configured and listed and the route reached, the
\* failures of single files never become a failure of the batch: the route
\* answers 200, the page ends without an error, and every sound file has its
\* row, in order.
C3_ItemFailuresStayLocal ==
    /\ (serverPc = "responded" /\ EnvComplete /\ listing.ok)
       => (response.status = 200 /\ response.json /\ response.data.kind = "array")
    /\ (clientPc = "settled" /\ network /\ EnvComplete /\ listing.ok)
       => /\ error = Null
          /\ loading = FALSE
          /\ Len(reconciliationData) = Len(SoundPositions)
          /\ \A k \in DOMAIN SoundPositions :
                 reconciliationData[k].filename = Str(<<"f", DigitChar(SoundPositions[k])>>)

\* a load has ended without an error, with the row of the one sound file,
\* though one file could not be read and another held a null account entry
C3_Witness ==
    /\ clientPc = "settled"
    /\ error = Null
    /\ Len(reconciliationData) = 1
    /\ \E i, j \in FailingPositions :
           /\ listing.items[i].content = ReadError
           /\ listing.items[j].content = Json(NullEntryItem)
-----------------------------------------------------------------------------
(* Claims about the value normalizer and the mapper *)

\* C4: safeParseFloat and safeParseInt return, for every input, a finite
\* number.
C4_NormalizerTotalAndFinite ==
    /\ floatOut.status # "threw"
    /\ intOut.status # "threw"
    /\ floatOut.status = "returned" => IsFinite(floatOut.value[1])
    /\ intOut.status = "returned" => IsFinite(intOut.value[1])

\* the raw values that hold nothing to parse
Unparseable == {Undefined, Null, Str(<<>>), Str(<<"N", "A">>)}

\* C5: every numeric field of a mapped account is a finite number, is 0 when
\* the raw field is absent or unparseable, and is whole when it is a count.
C5_MappedFieldsFinite ==
    mappedAccount.status = "returned"
    => \A f \in NumericFields :
           /\ IsFinite(mappedAccount.value[1][f])
           /\ rawAccount[RawFieldOf(f)] \in Unparseable => mappedAccount.value[1][f] = Num(0)
           /\ f \in IntegerFields => IsInteger(mappedAccount.value[1][f])

\* |x| of a number that is not NaN
Magnitude(x) ==
    CASE x.t = "number" -> Num(IF x.n >= 0 THEN x.n ELSE 0 - x.n)
      [] OTHER -> PosInf

\* C9: total_debits is never negative, is the magnitude of the normalized
\* total_withdrawals, and is the same for the account that differs in the
\* sign of total_withdrawals only.
C9_DebitsAreMagnitude ==
    mappedAccount.status = "returned"
    => LET debits == mappedAccount.value[1].total_debits
       IN  /\ debits.t \in {"number", "inf"}
           /\ debits.t = "number" => debits.n >= 0
           /\ debits = Magnitude(safeParseFloat(rawAccount.total_withdrawals))
           /\ mirrorMapped.status = "returned"
           /\ mirrorMapped.value[1].total_debits = debits

\* "-152330.52" and "152330.52" have both given 152330.52
C9_Witness ==
    /\ mappedAccount.status = "returned"
    /\ rawAccount.total_withdrawals = Str(<<"-", "1", "5", "2", "3", "3", "0", ".", "5", "2">>)
    /\ mappedAccount.value[1].total_debits = Num(152330520)
    /\ mirrorMapped.value[1].total_debits = Num(152330520)

\* C10: mapADLSToReconciliationRow raises only on an envelope that is missing
\* or holds no parsed_json; on every other envelope it returns a row.
C10_RaisesOnlyWithoutParsedJson ==
    mapOutcome.status = "threw"
    => \/ adlsData.kind # "object"
       \/ adlsData.parsed_json.kind \in {"absent", "null", "falsy"}

-----------------------------------------------------------------------------
(* Claims about the verdict *)

Abs(k) == IF k >= 0 THEN k ELSE 0 - k

\* the exact difference of an account of finite fields, in thousandths:
\* ending_balance - (starting_balance - total_debits + total_credits)
ExactDifference(a) ==
    a.ending_balance.n - (a.starting_balance.n - a.total_debits.n + a.total_credits.n)

Shown == {r \in rendered : r.account # <<>>}

\* C6: the difference shown is the exact difference of the four fields taken
\* to the nearest cent, and the account is shown reconciled exactly when that
\* difference is below half a cent in magnitude; of the example, 449.92
\* reconciles and 500.00 shows 50.08.
C6_VerdictFormula ==
    \A r \in Shown :
        LET a == r.account[1]
            d == ExactDifference(a)
        IN  /\ r.difference.t = "number"
            /\ r.difference.n % 10 = 0
            /\ Abs(r.difference.n - d) <= 5
            /\ r.isHarmonized <=> Abs(r.difference.n) < 5
            /\ (/\ a.starting_balance = Num(1780440) /\ a.total_debits = Num(152330520)
                /\ a.total_credits = Num(151000000))
               => /\ a.ending_balance = Num(449920) => r.isHarmonized
                  /\ a.ending_balance = Num(500000)
                         => (~r.isHarmonized /\ r.difference = Num(50080))

\* both examples have been shown
C6_Witness ==
    /\ \E r \in Shown : r.account[1].ending_balance = Num(449920) /\ r.isHarmonized
    /\ \E r \in Shown : r.account[1].ending_balance = Num(500000)
                            /\ r.difference = Num(50080)

\* C7: an exact difference below half a cent in magnitude, of either sign, is
\* shown as 0 and reconciled; 0.001 is reconciled and 0.006 is not.
C7_SubHalfCentIsZero ==
    \A r \in Shown :
        LET d == ExactDifference(r.account[1])
        IN  /\ Abs(d) < 5 => (r.difference = Num(0) /\ r.isHarmonized)
            /\ d = 6 => ~r.isHarmonized

\* differences of 0.004 and -0.004 have both been shown as 0, reconciled
C7_Witness ==
    /\ \E r \in Shown : ExactDifference(r.account[1]) = 4 /\ r.difference = Num(0)
                            /\ r.isHarmonized
    /\ \E r \in Shown : ExactDifference(r.account[1]) = -4 /\ r.difference = Num(0)
                            /\ r.isHarmonized

\* a tie d (an odd number of half cents) rounded away from zero, and to the
\* even cent
HalfAwayFromZero(d) == IF d > 0 THEN d + 5 ELSE d - 5
HalfToEven(d) ==
    LET lower == (Abs(d) - 5) \div 10
        cents == IF lower % 2 = 0 THEN lower ELSE lower + 1
    IN  IF d > 0 THEN 10 * cents ELSE 0 - 10 * cents

\* C8: the differences shown follow one tie rule: every tie is rounded away
\* from zero, or every tie is rounded to the even cent.
C8_OneTieRule ==
    LET ties == {r \in Shown : Abs(ExactDifference(r.account[1])) % 10 = 5}
    IN  \/ \A r \in ties : r.difference = Num(HalfAwayFromZero(ExactDifference(r.account[1])))
        \/ \A r \in ties : r.difference = Num(HalfToEven(ExactDifference(r.account[1])))

-----------------------------------------------------------------------------
(* Claims about the row *)

\* C11: two calls of mapADLSToReconciliationRow on the same envelope return
\* rows equal in every field, case_id included, whenever they are made.
C11_MappingTwiceSameRow ==
    (mapOutcome.status = "returned" /\ mapOutcomeAgain.status = "returned")
    => mapOutcomeAgain.value[1] = mapOutcome.value[1]

\* the items of the response that the loop has mapped to a row
MappedItems ==
    SelectSeq(response.data.items,
              LAMBDA item : ~SkippedByGuard(item) /\ ~mapADLSToReconciliationRowThrows(item))

\* a batch_id that is present and non-empty
HasBatchId(item) == item.batch_id.t = "string" /\ item.batch_id.s # <<>>

\* C12: after a load, the case_id of a row is the batch_id of its item when
\* that is present and non-empty, and any two rows whose items have none have
\* different case_ids.
C12_CaseIdVerbatimOrUnique ==
    (clientPc = "settled" /\ error = Null /\ response.data.kind = "array"
         /\ Len(reconciliationData) = Len(MappedItems))
    => /\ \A k \in DOMAIN MappedItems :
              HasBatchId(MappedItems[k])
              => reconciliationData[k].case_id = MappedItems[k].batch_id
       /\ \A j, k \in DOMAIN MappedItems :
              (j # k /\ ~HasBatchId(MappedItems[j]) /\ ~HasBatchId(MappedItems[k]))
              => reconciliationData[j].case_id # reconciliationData[k].case_id

-----------------------------------------------------------------------------
(* Claims about the conversions of the normalizer *)

\* the characters of cs that are not commas, in order
NoCommas(cs) == SelectSeq(cs, LAMBDA c : c # ",")

\* a decimal numeral: an optional sign, digits, and an optional point with
\* digits, at least one digit in all
IsDecimalNumeral(cs) ==
    LET signed == cs # <<>> /\ cs[1] \in {"-", "+"}
        body == IF signed THEN Tail(cs) ELSE cs
        points == {i \in DOMAIN body : body[i] = "."}
    IN  /\ Cardinality(points) <= 1
        /\ \A i \in DOMAIN body : body[i] \in Digits \cup {"."}
        /\ \E i \in DOMAIN body : body[i] \in Digits

\* the value of a decimal numeral, in thousandths
RECURSIVE NumeralThousandths(_, _)
NumeralThousandths(body, weight) ==
    IF body = <<>> THEN 0
    ELSE IF Head(body) = "." THEN NumeralThousandths(Tail(body), 100)
    ELSE IF weight = 0
    THEN LET rest == Tail(body)
             whole == Cardinality({i \in DOMAIN rest :
                                       \A j \in 1..i : rest[j] # "."})
         IN  DigitVal(Head(body)) * Pow10(whole) * Scale + NumeralThousandths(rest, 0)
    ELSE DigitVal(Head(body)) * weight + NumeralThousandths(Tail(body), weight \div 10)

DecimalValue(cs) ==
    IF cs[1] = "-" THEN 0 - NumeralThousandths(Tail(cs), 0)
    ELSE IF cs[1] = "+" THEN NumeralThousandths(Tail(cs), 0)
    ELSE NumeralThousandths(cs, 0)

\* the text parsed as a decimal number: the value of the longest decimal
\* numeral it starts with, and 0 when it starts with none
ParsedAsDecimal(cs) ==
    LET numerals == {k \in 1..Len(cs) : IsDecimalNumeral(SubSeq(cs, 1, k))}
    IN  IF numerals = {} THEN Num(0)
        ELSE Num(DecimalValue(SubSeq(cs, 1,
                     CHOOSE k \in numerals : \A j \in numerals : j <= k)))

\* C13: safeParseFloat gives 0 for null and undefined, a finite number
\* unchanged, and for a string the decimal number read from it once its commas
\* are removed and its surrounding whitespace trimmed, 0 when none can be read.
C13_DecimalOfString ==
    floatOut.status = "returned"
    => /\ rawValue.t \in {"null", "undefined"} => floatOut.value[1] = Num(0)
       /\ IsFinite(rawValue) => floatOut.value[1] = rawValue
       /\ rawValue.t = "string"
          => floatOut.value[1] = ParsedAsDecimal(Trim(NoCommas(rawValue.s)))


\* the decimal number a raw value stands for under the rules of C13
DecimalRead(value) ==
    CASE value.t \in {"null", "undefined"} -> Num(0)
      [] value.t = "number" -> value
      [] value.t = "string" -> ParsedAsDecimal(Trim(NoCommas(value.s)))

\* a finite number without its fraction
TruncatedTowardZero(v) ==
    Num(IF v.n >= 0 THEN (v.n \div Scale) * Scale ELSE 0 - (((0 - v.n) \div Scale) * Scale))

\* C14: safeParseInt gives the number its input stands for, truncated toward
\* zero, whether the input is a number or a string.
C14_IntegerTruncatesTowardZero ==
    (intOut.status = "returned" /\ rawValue.t \in {"null", "undefined", "number", "string"})
    => intOut.value[1] = TruncatedTowardZero(DecimalRead(rawValue))


\* a raw month or year from which no number can be read: absent, null, NaN,
\* or a string that starts with no decimal numeral
HoldsNoNumber(v) ==
    \/ v.t \in {"undefined", "null", "nan"}
    \/ /\ v.t = "string"
       /\ \A k \in 1..Len(Trim(v.s)) : ~IsDecimalNumeral(SubSeq(Trim(v.s), 1, k))

\* the labels C15 allows for a raw month: the abbreviation of a month 1..12,
\* JAN for an absent or invalid month (0 among them), the literal string form
\* of any other value
MonthLabels(month) ==
    IF (HoldsNoNumber(month) /\ ~Truthy(month)) \/ month = Num(0) THEN {<<"J", "A", "N">>}
    ELSE IF \E k \in 1..12 : StringOf(month) = NatToChars(k)
    THEN {MonthAbbreviations[k] : k \in {j \in 1..12 : StringOf(month) = NatToChars(j)}}
    ELSE {StringOf(month)} \cup (IF HoldsNoNumber(month) THEN {<<"J", "A", "N">>} ELSE {})

\* the label C15 allows for a raw year: 2025 for an absent or invalid year (0
\* among them), the string form of any other
YearLabels(year) ==
    IF HoldsNoNumber(year) \/ year = Num(0) THEN {<<"2", "0", "2", "5">>}
    ELSE {StringOf(year)}

\* C15: the month_year of a row is "<ABBR> <YEAR>": JAN..DEC for a month
\* 1..12, the literal string form for a month outside 1..12, JAN for an absent
\* or invalid month, and 2025 for an absent or invalid year.
C15_PeriodLabel ==
    (mapOutcome.status = "returned" /\ adlsData.parsed_json.kind = "object")
    => \E m \in MonthLabels(adlsData.parsed_json.statement_month),
          y \in YearLabels(adlsData.parsed_json.statement_year) :
           mapOutcome.value[1].month_year = Str(m \o <<" ">> \o y)


\* the days of month m (1..12) of year y in the Gregorian calendar
GregorianDays(m, y) ==
    IF m = 2
    THEN (IF y % 400 = 0 \/ (y % 4 = 0 /\ y % 100 # 0) THEN 29 ELSE 28)
    ELSE 30 + ((m + (m \div 8)) % 2)

\* an integer written in decimal, without leading zeros
Decimal(k) == IF k < 0 THEN <<"-">> \o NatToChars(0 - k) ELSE NatToChars(k)

\* the whole number a raw month or year is normalized to where the value
\* leaves no doubt: the number itself when it is whole and not 0, the
\* default d when it is absent; no constraint otherwise
NormalizesTo(raw, k, d) ==
    /\ (raw.t = "number" /\ raw.n % Scale = 0 /\ raw.n # 0) => k * Scale = raw.n
    /\ raw.t \in {"undefined", "null"} => k = d

StatementMonths == -1..13
StatementYears == {1900, 2024, 2025, 300000}

\* C16: the dates of a row are "m/1/y" and "m/L/y", m and y the normalized
\* month and year written without leading zeros and L the number of days of
\* month m of year y in the Gregorian calendar.
C16_TransactionDates ==
    (mapOutcome.status = "returned" /\ adlsData.parsed_json.kind = "object")
    => \E m \in StatementMonths, y \in StatementYears :
           /\ NormalizesTo(adlsData.parsed_json.statement_month, m, 1)
           /\ NormalizesTo(adlsData.parsed_json.statement_year, y, 2025)
           /\ mapOutcome.value[1].first_transaction_date
                  = Str(Decimal(m) \o <<"/", "1", "/">> \o Decimal(y))
           /\ \E L \in 28..31 :
                  /\ m \in 1..12 => L = GregorianDays(m, y)
                  /\ mapOutcome.value[1].last_transaction_date
                         = Str(Decimal(m) \o <<"/">> \o Decimal(L) \o <<"/">> \o Decimal(y))


-----------------------------------------------------------------------------
(* Claims about the rows of the page *)

RECURSIVE AccountsIn(_)
AccountsIn(items) ==
    IF items = <<>> THEN 0
    ELSE Len(Head(items).parsed_json.accounts.items) + AccountsIn(Tail(items))

-----------------------------------------------------------------------------
(* Claims about the display filename *)

\* two characters equal up to the case of a letter
SameLetter(a, b) ==
    a = b \/ \E i \in 1..26 : {a, b} = {UpperCase[i], LowerCase[i]}

\* cs ends with "_parsing_result.json", in any case
EndsWithSuffix(cs) ==
    /\ Len(cs) >= Len(ParsingResultSuffix)
    /\ \A i \in 1..Len(ParsingResultSuffix) :
           SameLetter(cs[Len(cs) - Len(ParsingResultSuffix) + i], ParsingResultSuffix[i])

\* C19: the filename of a row is the filename of its envelope without one
\* trailing "_parsing_result.json" (in any case), unchanged when it does not
\* end so, and empty when the envelope has none; stripping it once more
\* changes it only if what is left ends with the suffix again.
C19_DisplayFilename ==
    mapOutcome.status = "returned"
    => LET source == adlsData.filename
           shown == mapOutcome.value[1].filename
       IN  /\ shown.t = "string"
           /\ source.t \in {"undefined", "null"} => shown.s = <<>>
           /\ (source.t = "string" /\ EndsWithSuffix(source.s))
              => shown.s = SubSeq(source.s, 1, Len(source.s) - Len(ParsingResultSuffix))
           /\ (source.t = "string" /\ ~EndsWithSuffix(source.s)) => shown.s = source.s
           /\ ~EndsWithSuffix(shown.s) => StripParsingResultSuffix(shown.s) = shown.s

\* a name ending with the suffix in capitals has lost it
C19_Witness ==
    /\ mapOutcome.status = "returned"
    /\ adlsData.filename.t = "string"
    /\ Len(adlsData.filename.s) = 1 + Len(ParsingResultSuffix)
    /\ adlsData.filename.s[3] = "P"
    /\ mapOutcome.value[1].filename = Str(<<"a">>)

-----------------------------------------------------------------------------
(* Claims about the empty load *)

\* the storage is configured, reached and listed, and holds no file that can
\* be read, parsed and validated
NothingValid ==
    /\ EnvComplete /\ network /\ listing.ok
    /\ GoodPositions(listing.items, 1) = <<>>

\* C20: a load that finds no file, or only invalid ones, is no error: the
\* route answers 200 with an empty data array, and the page ends with loading
\* false, error null and no row, rendering the empty state.
C20_EmptyLoadIsNoError ==
    /\ (serverPc = "responded" /\ NothingValid)
       => response = JsonResponse(200, Undefined, ArrayOf(<<>>))
    /\ (clientPc = "settled" /\ NothingValid)
       => /\ loading = FALSE
          /\ error = Null
          /\ reconciliationData = <<>>
          /\ HomeRender = [view |-> "empty", rows |-> 0]

\* a load of two files, both invalid, has ended in the empty state
C20_Witness ==
    /\ clientPc = "settled"
    /\ NothingValid
    /\ Len(filePaths) >= 2
    /\ HomeRender.view = "empty"

-----------------------------------------------------------------------------
(* Claims about the failures of the batch *)

\* the storage cannot serve the batch: the configuration is incomplete or the
\* listing fails
StorageUnavailable == ~EnvComplete \/ ~listing.ok

\* C21: when the storage is misconfigured or its listing fails, the route
\* answers 500 with an error and no data, having read no file when the
\* configuration is incomplete, and the page ends in the error panel showing
\* that message, with no rows.
C21_StorageFailureIsBatchError ==
    /\ ~EnvComplete => (filePaths = <<>> /\ taskPc = <<>> /\ results = <<>>)
    /\ (serverPc = "responded" /\ StorageUnavailable)
       => /\ response.status = 500
          /\ response.data = NoData
          /\ response.error.t = "string" /\ response.error.s # <<>>
    /\ (clientPc = "settled" /\ network /\ StorageUnavailable)
       => /\ HomeRender = [view |-> "error", rows |-> 0]
          /\ error = response.error
          /\ reconciliationData = <<>>
          /\ loading = FALSE

\* a load has ended in the error panel after a listing that failed
C21_Witness ==
    /\ clientPc = "settled"
    /\ network
    /\ EnvComplete /\ ~listing.ok
    /\ HomeRender.view = "error"
    /\ error = Message("Failed to fetch data from Azure Data Lake Storage")


-----------------------------------------------------------------------------
(* Claims about the objects of the mapping *)

Range(seq) == {seq[i] : i \in DOMAIN seq}

Distinct(seq) == \A i, j \in DOMAIN seq : seq[i] = seq[j] => i = j

\* no returned account is an object of the input, and no object is an
\* account of two results or twice of one
SharesNoObject ==
    /\ Range(heap.given) \cap (Range(heap.mapped) \cup Range(heap.row) \cup Range(heap.again)) = {}
    /\ Range(heap.row) \cap Range(heap.again) = {}
    /\ Range(heap.mapped) \cap (Range(heap.row) \cup Range(heap.again)) = {}
    /\ Distinct(heap.mapped) /\ Distinct(heap.row) /\ Distinct(heap.again)

\* C22: mapADLSToReconciliationRow and mapAccountData leave the raw envelope
\* and every raw account as they were, and the accounts they return are new
\* objects: none is an object of the input or an account of another row.
C22_MappingLeavesInputAlone ==
    [][/\ adlsData' = adlsData
       /\ rawAccount' = rawAccount
       /\ SharesNoObject']_vars

\* an envelope of two accounts has been mapped twice
C22_Witness ==
    /\ mapOutcome.status = "returned"
    /\ mapOutcomeAgain.status = "returned"
    /\ Len(mapOutcome.value[1].accounts) = MaxAccounts
    /\ Len(heap.row) = MaxAccounts /\ Len(heap.again) = MaxAccounts


-----------------------------------------------------------------------------
(* Claims about the life of a load *)

\* the view of a page that is no longer loading, told by error and the rows
ViewOf(err, rows) ==
    IF err # Null THEN "error" ELSE IF Len(rows) = 0 THEN "empty" ELSE "rows"

\* C23: loading is true from the mount until the fetch has settled; on every
\* path (rows, HTTP error, rejected fetch, malformed body) loading becomes
\* false and stays false; once it is false the page shows exactly the view
\* told by error and the rows (error panel, empty state or row list), and an
\* error never stands beside rows of the same load.
C23_LoadingEndsInOneView ==
    /\ [](loading <=> clientPc # "settled")
    /\ <>[](~loading)
    /\ [][~loading => ~loading']_vars
    /\ [](~loading => /\ HomeRender.view = ViewOf(error, reconciliationData)
                      /\ HomeRender.rows = Len(reconciliationData) \/ error # Null)
    /\ [](error # Null => reconciliationData = <<>>)

\* a load has ended on a body that is no JSON, in the error panel
C23_Witness ==
    /\ clientPc = "settled"
    /\ ~loading
    /\ ~response.json
    /\ HomeRender = [view |-> "error", rows |-> 0]


\* C24: a row is shown reconciled only if it has a selected account whose
\* difference is 0, so a row without accounts is never shown reconciled, and
\* after any selections the verdict shown is that of the account at the
\* selected index.
C24_ReconciledOnlyWithAccount ==
    /\ \A r \in rendered :
           r.isHarmonized => /\ r.account # <<>>
                             /\ calculateDifference(r.account[1]) = Num(0)
    /\ data.accounts # <<>>
       => /\ Render(data, selectedAccountIndex) \in rendered
          /\ Render(data, selectedAccountIndex).account
                 = <<data.accounts[selectedAccountIndex + 1]>>


-----------------------------------------------------------------------------
(* Claims about the period of a row *)

\* the labels that denote the whole month m: its abbreviation for 1..12, its
\* decimal form otherwise, with or without a leading zero
LabelsOfMonth(m) ==
    IF m \in 1..12 THEN {MonthAbbreviations[m], Decimal(m), <<"0">> \o Decimal(m)}
    ELSE {Decimal(m)}

\* the texts of a year: a whole year in decimal, or the same text on both
\* sides for a year that is no finite number
YearTexts == {Decimal(y) : y \in StatementYears \cup {0}} \cup {InfinityChars}

\* C25: the period label and the date range of a row denote the same month
\* and the same year, whatever statement_month and statement_year hold.
C25_LabelAndDatesAgree ==
    (mapOutcome.status = "returned" /\ adlsData.parsed_json.kind = "object")
    => \E m \in StatementMonths, y \in YearTexts :
           /\ \E l \in LabelsOfMonth(m) :
                  mapOutcome.value[1].month_year = Str(l \o <<" ">> \o y)
           /\ mapOutcome.value[1].first_transaction_date
                  = Str(Decimal(m) \o <<"/", "1", "/">> \o y)


-----------------------------------------------------------------------------
(* Claims about the rows of a batch *)

\* C26: no two rows of a rendered batch have the same case_id, so the keys of
\* the list are unique, also when several files carry the same batch_id.
C26_CaseIdsDistinct ==
    clientPc = "settled"
    => \A i, j \in DOMAIN reconciliationData :
           reconciliationData[i].case_id = reconciliationData[j].case_id => i = j


-----------------------------------------------------------------------------
(* Claims about the sign of the difference *)

\* C27: two accounts whose exact differences are d and -d are shown
\* differences of equal magnitude and opposite sign and the same verdict, at
\* d = 0.005 in particular.
C27_VerdictSymmetricInSign ==
    \A r, q \in Shown :
        ExactDifference(r.account[1]) = 0 - ExactDifference(q.account[1])
        => /\ r.difference.n = 0 - q.difference.n
           /\ r.isHarmonized = q.isHarmonized


-----------------------------------------------------------------------------
(* Claims about the items left out *)

\* the positions in the listing of the .json files that hold an object with a
\* parsed_json object
DetailPositions ==
    SelectSeq([i \in DOMAIN listing.items |-> i],
              LAMBDA i : /\ ~listing.items[i].isDirectory
                         /\ EndsWith(listing.items[i].name, <<".", "j", "s", "o", "n">>)
                         /\ listing.items[i].content.outcome = "json"
                         /\ listing.items[i].content.value.kind = "object"
                         /\ listing.items[i].content.value.parsed_json.kind = "object")

\* C28: an item is left out only when it lacks parsed_json: every file that
\* holds a parsed_json object, whatever its accounts, is returned by the
\* route, and has its row on the page unless the mapper raises on it.
C28_ExcludedOnlyWithoutDetail ==
    /\ (serverPc = "responded" /\ response.status = 200)
       => Len(response.data.items) = Len(DetailPositions)
    /\ (clientPc = "settled" /\ network /\ EnvComplete /\ listing.ok)
       => Len(reconciliationData)
              = Len(SelectSeq(DetailPositions,
                              LAMBDA i : ~mapADLSToReconciliationRowThrows(
                                              listing.items[i].content.value)))


-----------------------------------------------------------------------------
(* Claims about the routes of one case *)

\* id is "Case" followed by one digit at least
IsCaseToken(id) ==
    /\ Len(id) >= 5
    /\ SubSeq(id, 1, 4) = CaseWord
    /\ \A i \in 5..Len(id) : id[i] \in Digits

\* name contains the token id as a whole: an occurrence of id that no digit
\* follows
ContainsToken(name, id) ==
    /\ IsCaseToken(id)
    /\ \E p \in 1..Len(name) :
           /\ p + Len(id) - 1 <= Len(name)
           /\ SubSeq(name, p, p + Len(id) - 1) = id
           /\ p + Len(id) <= Len(name) => name[p + Len(id)] \notin Digits

\* the directories listed whose name contains the token of the case
TokenDirectories ==
    SelectSeq(DirectoriesOf(directories.items),
              LAMBDA dir : ContainsToken(LastSegment(dir), caseId.s))

\* the file of what the read settled with holds no parsed_json.accounts array
WithoutAccountsArray(content) ==
    /\ content.outcome = "json"
    /\ ~(/\ content.value.kind = "object"
         /\ content.value.parsed_json.kind = "object"
         /\ content.value.parsed_json.accounts.kind = "array")

\* C29: fetch-bsi-analysis returns data only from the first listed directory
\* whose name contains the token caseId as a whole; a missing caseId is
\* answered 400 before the storage is touched, no such directory 404, a file
\* that cannot be read or parsed 404, a file without a parsed_json.accounts
\* array 500, and no answer but 200 carries data.
C29_BsiOutcomes ==
    casePc = "bsi_responded"
    => /\ answer.status # 200 => answer.data = <<>>
       /\ ~Truthy(caseId) => (answer.status = 400 /\ readPath = <<>> /\ fileContent = <<>>)
       /\ (Truthy(caseId) /\ EnvComplete /\ directories.ok)
          => /\ TokenDirectories = <<>> <=> (answer.status = 404 /\ fileContent = <<>>)
             /\ TokenDirectories # <<>>
                => /\ readPath = bsiAnalysisPath(TokenDirectories[1], caseId.s)
                   /\ fileContent # <<>>
                   /\ fileContent[1].outcome # "json" => answer.status = 404
                   /\ WithoutAccountsArray(fileContent[1]) => answer.status = 500
                   /\ answer.status = 200 => answer.data = <<fileContent[1].value>>


\* a token starts at position p of cs: "case" in any letter case, then a digit
TokenAt(cs, p) ==
    /\ p + 4 <= Len(cs)
    /\ \A i \in 1..4 : SameLetter(cs[p + i - 1], CaseWord[i])
    /\ cs[p + 4] \in Digits

\* the digit runs that follow the first token of cs: one run, or none
CaseNumbers(cs) ==
    {SubSeq(cs, p + 4, e) :
         <<p, e>> \in {pe \in (1..Len(cs)) \X (1..Len(cs)) :
                           /\ TokenAt(cs, pe[1])
                           /\ \A q \in 1..(pe[1] - 1) : ~TokenAt(cs, q)
                           /\ pe[2] >= pe[1] + 4
                           /\ \A i \in (pe[1] + 4)..pe[2] : cs[i] \in Digits
                           /\ pe[2] < Len(cs) => cs[pe[2] + 1] \notin Digits}}

\* the transactions of a list whose non_true_revenue is the number 1
RevenueOnes(list) ==
    IF list.kind = "array"
    THEN Len(SelectSeq(list.items,
                       LAMBDA item : item.non_true_revenue.t = "number"
                                         /\ item.non_true_revenue.n = Scale))
    ELSE 0

RECURSIVE OnesOver(_, _)
OnesOver(account, k) ==
    IF k = 0 THEN 0 ELSE RevenueOnes(account[FundingLists[k]]) + OnesOver(account, k - 1)

\* the accounts of the file the read settled with
FileAccounts == fileContent[1].value.parsed_json.accounts.items

\* C30: the funding transfer route returns one entry per account of the file,
\* in the file's order, counting the transactions whose non_true_revenue is
\* exactly 1 over the five lists (a missing list or one that is no array
\* counting 0); the file read is "Case<N>.json", N the first digit run that
\* follows "case" in any letter case in caseId, and a caseId without such a
\* token is answered 400.
C30_FundingTransferCounts ==
    /\ (casePc = "funding_responded" /\ EnvComplete /\ Truthy(caseId)
            /\ CaseNumbers(caseId.s) # {})
       => (readPath # <<>> /\ fileContent # <<>>)
    /\ (casePc \in {"funding_reading", "funding_responded"} /\ readPath # <<>>)
       => /\ Truthy(caseId)
          /\ CaseNumbers(caseId.s) = {SubSeq(readPath, 7, Len(readPath) - 5)}
          /\ SubSeq(readPath, 3, 6) = CaseWord
          /\ SubSeq(readPath, Len(readPath) - 4, Len(readPath)) = <<".", "j", "s", "o", "n">>
          /\ LastSegment(readPath) = SubSeq(readPath, 3, Len(readPath))
    /\ (casePc = "funding_responded" /\ (~Truthy(caseId) \/ CaseNumbers(caseId.s) = {}))
       => (answer.status = 400 /\ answer.data = <<>> /\ readPath = <<>>)
    /\ (casePc = "funding_responded" /\ answer.status = 200)
       => /\ Len(answer.data[1]) = Len(FileAccounts)
          /\ \A i \in DOMAIN FileAccounts :
                 /\ answer.data[1][i].account_number = FileAccounts[i].account_number
                 /\ answer.data[1][i].account_type = FileAccounts[i].account_type
                 /\ answer.data[1][i].funding_transfer_count = OnesOver(FileAccounts[i], 5)

\* the file Case07.json was read for the caseId "xCASE07y8" and answered with
\* the counts of its two accounts, 1 and 5
C30_Witness ==
    /\ casePc = "funding_responded"
    /\ caseId = Str(<<"x", "C", "A", "S", "E", "0", "7", "y", "8">>)
    /\ readPath = <<"f", "/", "C", "a", "s", "e", "0", "7", ".", "j", "s", "o", "n">>
    /\ answer.status = 200
    /\ Len(answer.data[1]) = 2
    /\ answer.data[1][1].funding_transfer_count = 1
    /\ answer.data[1][2].funding_transfer_count = 5

=============================================================================
